---- MODULE Spec2Model ----
(***************************************************************************)
(* Verification model of the SmartScope diagnostic tools                   *)
(*   scripts/tools/camera_diagnosis.py                                     *)
(*   scripts/tools/depth_calibration_diagnosis.py                          *)
(*   scripts/tools/depth_analysis.py                                       *)
(*                                                                         *)
(* Conventions.                                                            *)
(*  - A text file is a sequence of lines, a line a sequence of tokens, a   *)
(*    token either a number or a word.  "m in line" (substring test) is    *)
(*    the presence of the word m among the tokens; line.split() is the     *)
(*    token sequence; float(tok) succeeds on numbers only.                 *)
(*  - Real numbers are exact rationals [n, d] in lowest terms.  A standard *)
(*    deviation, an RMS value and a vector norm are carried as their       *)
(*    squares (variance, mean square, squared norm); every comparison of   *)
(*    such a value with a threshold t of the code is made against t*t,     *)
(*    which is the same comparison because both sides are non-negative.    *)
(*  - A Python exception that leaves a function is the value Raised in the *)
(*    place of its result; the script then stops (pc = "crashed").         *)
(*  - camera_diagnosis.py line 104 carries its "except" at a deeper        *)
(*    indentation than its "try"; the model reads the handler as closing   *)
(*    the try block opened at line 14, as in depth_analysis.py:132.        *)
(***************************************************************************)
EXTENDS Integers, Sequences, FiniteSets, TLC

VARIABLES
    pc,        \* position of the running script
    fs,        \* the file system: file name -> content, or Missing
    params,    \* result of the last load_camera_parameters call
    cam,       \* camera_diagnosis: the ROI sweep (resolution index, ROIs, report)
    align,     \* camera_diagnosis: the report of check_camera_alignment
    inp,       \* the arguments of the run: command line and depth-map files
               \* (depth_calibration_diagnosis), device_name (depth_analysis)
    diag,      \* depth_calibration_diagnosis: the locals of main
    dev        \* depth_analysis: the locals of main and of compare_devices

vars == <<pc, fs, params, cam, align, inp, diag, dev>>

----------------------------------------------------------------------------
(* Bounds of the model *)

\* ROI corner coordinates range over 0..MaxCoord
MaxCoord == 1
\* ROI widths and heights range over 0..MaxSize
MaxSize == 2
\* depth samples are 0 (invalid) or one of MaxLevel levels 60 mm apart
MaxLevel == 2
\* parameter deltas are drawn within +-Margin of each threshold
Margin == 1

----------------------------------------------------------------------------
(* Arithmetic helpers *)

Max(a, b) == IF a >= b THEN a ELSE b
Min(a, b) == IF a <= b THEN a ELSE b
Abs(a) == IF a < 0 THEN -a ELSE a

RECURSIVE Gcd(_, _)
Gcd(a, b) == IF b = 0 THEN a ELSE Gcd(b, a % b)

\* the rational n/d (d # 0) in lowest terms with positive denominator
Rat(n, d) ==
    LET s == IF d < 0 THEN -1 ELSE 1
        g == Gcd(Abs(n), Abs(d))
    IN  [n |-> (s * n) \div g, d |-> (s * d) \div g]
RInt(k) == [n |-> k, d |-> 1]
RAdd(a, b) == Rat(a.n * b.d + b.n * a.d, a.d * b.d)
RSub(a, b) == Rat(a.n * b.d - b.n * a.d, a.d * b.d)
RMul(a, b) == Rat(a.n * b.n, a.d * b.d)
RDiv(a, b) == Rat(a.n * b.d, a.d * b.n)
RLt(a, b) == a.n * b.d < b.n * a.d
RGt(a, b) == RLt(b, a)
RAbs(a) == [n |-> Abs(a.n), d |-> a.d]
RMax(a, b) == IF RLt(a, b) THEN b ELSE a

RECURSIVE RSum(_)
RSum(s) == IF s = <<>> THEN RInt(0) ELSE RAdd(Head(s), RSum(Tail(s)))

\* the values of Python that are not data
None == [tag |-> "None"]
Raised == [tag |-> "Raised"]
Missing == [tag |-> "Missing"]
NaN == [tag |-> "NaN"]

IsNone(x) == x.tag = "None"
IsRaised(x) == x.tag = "Raised"

----------------------------------------------------------------------------
(* Text files *)

Num(v) == [w |-> "", v |-> v]
Word(s) == [w |-> s, v |-> 0]
File(lines) == [tag |-> "file", lines |-> lines]

\* "m in line"
HasWord(line, m) == \E i \in DOMAIN line : line[i].w = m
\* every float(x) for x in line.split() succeeds
AllNum(line) == \A i \in DOMAIN line : line[i].w = ""
\* [float(x) for x in line.split()]
Floats(line) == [i \in DOMAIN line |-> line[i].v]
\* line.strip() is non-empty
NonBlank(line) == line # <<>>

NumRow(vals) == [i \in DOMAIN vals |-> Num(vals[i])]

\* the documented intrinsics layout: marker, three rows of K, marker, one row
IntrinsicsFile(K, dist) ==
    File(<< <<Word("intrinsic:")>>, NumRow(K[1]), NumRow(K[2]), NumRow(K[3]),
            <<Word("distortion:")>>, NumRow(dist) >>)
\* the positional extrinsics layout: three rows of R, three scalars of T
PositionalExtrinsicsFile(R, T) ==
    File(<< NumRow(R[1]), NumRow(R[2]), NumRow(R[3]),
            <<Num(T[1])>>, <<Num(T[2])>>, <<Num(T[3])>> >>)
\* the marker extrinsics layout: "R:", three rows, "T:", three scalars
MarkerExtrinsicsFile(R, T) ==
    File(<< <<Word("R:")>>, NumRow(R[1]), NumRow(R[2]), NumRow(R[3]),
            <<Word("T:")>>, <<Num(T[1])>>, <<Num(T[2])>>, <<Num(T[3])>> >>)

os_path_exists(f) == fs[f].tag = "file"

----------------------------------------------------------------------------
(* numpy arrays built from parsed rows *)

\* rows of one common length: np.array(rows) is a proper 2-D array
IsRect(rows) == \A i, j \in DOMAIN rows : Len(rows[i]) = Len(rows[j])

\* squared Euclidean norm of a vector
NormSq(T) == T[1] * T[1] + T[2] * T[2] + T[3] * T[3]

Is3x3(M) == Len(M) = 3 /\ \A i \in 1..3 : Len(M[i]) = 3

\* M[i, j] with 0-based i, j; IndexError when M is not 2-D or too small
HasElem(M, i, j) == IsRect(M) /\ i < Len(M) /\ j < Len(M[i + 1])
Elem(M, i, j) == M[i + 1][j + 1]

\* Parsing of an intrinsics file: the loop over the lines, carrying the two
\* reading flags, the rows appended so far and the last distortion row.
RECURSIVE ParseIntrinsicsFrom(_, _, _, _, _)
ParseIntrinsicsFrom(lines, reading_intrinsic, reading_distortion, matrix, distortion) ==
    IF lines = <<>>
    THEN [tag |-> "ok", matrix |-> matrix, distortion |-> distortion]
    ELSE LET line == Head(lines)
             rest == Tail(lines)
         IN  IF HasWord(line, "intrinsic:")
             THEN ParseIntrinsicsFrom(rest, TRUE, FALSE, matrix, distortion)
             ELSE IF HasWord(line, "distortion:")
             THEN ParseIntrinsicsFrom(rest, FALSE, TRUE, matrix, distortion)
             ELSE IF reading_intrinsic
             THEN IF AllNum(line)
                  THEN ParseIntrinsicsFrom(rest, reading_intrinsic, reading_distortion,
                                           Append(matrix, Floats(line)), distortion)
                  ELSE Raised
             ELSE IF reading_distortion
             THEN IF AllNum(line)
                  THEN ParseIntrinsicsFrom(rest, reading_intrinsic, reading_distortion,
                                           matrix, Floats(line))
                  ELSE Raised
             ELSE ParseIntrinsicsFrom(rest, reading_intrinsic, reading_distortion,
                                      matrix, distortion)

\* the loop with a "distortion:" marker that leaves reading_intrinsic set
RECURSIVE ParseIntrinsicsStickyFrom(_, _, _, _, _)
ParseIntrinsicsStickyFrom(lines, reading_intrinsic, reading_distortion, matrix, distortion) ==
    IF lines = <<>>
    THEN [tag |-> "ok", matrix |-> matrix, distortion |-> distortion]
    ELSE LET line == Head(lines)
             rest == Tail(lines)
         IN  IF HasWord(line, "intrinsic:")
             THEN ParseIntrinsicsStickyFrom(rest, TRUE, FALSE, matrix, distortion)
             ELSE IF HasWord(line, "distortion:")
             THEN ParseIntrinsicsStickyFrom(rest, reading_intrinsic, TRUE, matrix, distortion)
             ELSE IF ~AllNum(line) /\ (reading_intrinsic \/ reading_distortion)
             THEN Raised
             ELSE IF reading_intrinsic
             THEN ParseIntrinsicsStickyFrom(rest, reading_intrinsic, reading_distortion,
                                            Append(matrix, Floats(line)), distortion)
             ELSE IF reading_distortion
             THEN ParseIntrinsicsStickyFrom(rest, reading_intrinsic, reading_distortion,
                                            matrix, Floats(line))
             ELSE ParseIntrinsicsStickyFrom(rest, reading_intrinsic, reading_distortion,
                                            matrix, distortion)

ParseIntrinsics_Sticky(lines) == ParseIntrinsicsStickyFrom(lines, FALSE, FALSE, <<>>, <<>>)

ParseIntrinsics(lines) == ParseIntrinsicsFrom(lines, FALSE, FALSE, <<>>, <<>>)

\* np.array(rows): rows of unequal length either raise ValueError or give a
\* 1-D object array, depending on the numpy release; both are possible.
NpArrayMayRaise(rows) == ~IsRect(rows)
NpArrayMayReturn(rows) == TRUE

\* camera_diagnosis: the positional extrinsics parser
ParseExtrinsicsPositional(lines) ==
    IF Len(lines) < 3 \/ \E i \in 1..3 : ~AllNum(lines[i])
    THEN Raised
    ELSE IF Len(lines) < 6 \/ \E i \in 4..6 : ~(Len(lines[i]) = 1 /\ AllNum(lines[i]))
    THEN Raised
    ELSE [tag |-> "ok",
          rotation |-> [i \in 1..3 |-> Floats(lines[i])],
          translation |-> [i \in 1..3 |-> lines[i + 3][1].v]]

\* depth_analysis: the marker extrinsics parser (the loop over the lines)
RECURSIVE ParseExtrinsicsFrom(_, _, _, _, _)
ParseExtrinsicsFrom(lines, reading_rotation, reading_translation, rotation, translation) ==
    IF lines = <<>>
    THEN IF Len(translation) = 3
         THEN [tag |-> "ok", rotation |-> rotation, translation |-> translation]
         ELSE Raised   \* reshape(3, 1) of a vector that has not 3 elements
    ELSE LET line == Head(lines)
             rest == Tail(lines)
         IN  IF HasWord(line, "R:")
             THEN ParseExtrinsicsFrom(rest, TRUE, FALSE, rotation, translation)
             ELSE IF HasWord(line, "T:")
             THEN ParseExtrinsicsFrom(rest, FALSE, TRUE, rotation, translation)
             ELSE IF reading_rotation /\ NonBlank(line)
             THEN IF AllNum(line)
                  THEN ParseExtrinsicsFrom(rest, reading_rotation, reading_translation,
                                           Append(rotation, Floats(line)), translation)
                  ELSE Raised
             ELSE IF reading_translation /\ NonBlank(line)
             THEN IF Len(line) = 1 /\ AllNum(line)
                  THEN ParseExtrinsicsFrom(rest, reading_rotation, reading_translation,
                                           rotation, Append(translation, line[1].v))
                  ELSE Raised
             ELSE ParseExtrinsicsFrom(rest, reading_rotation, reading_translation,
                                      rotation, translation)

ParseExtrinsicsMarker(lines) == ParseExtrinsicsFrom(lines, FALSE, FALSE, <<>>, <<>>)

----------------------------------------------------------------------------
(* load_camera_parameters *)

\* the failed load: a message was printed and None returned.  error is
\* <<"missing", file>> for the message that names a file, <<"exception">>
\* for the message of the except clause.
LoadFailed(error) == [tag |-> "None", error |-> error]

\* The body of the try block once the three file names are fixed: the set of
\* results the call can produce.  layout selects the extrinsics parser of the
\* script ("positional": camera_diagnosis, "marker": depth_analysis).
LoadFrom(left_file, right_file, rot_file, layout) ==
    IF ~os_path_exists(left_file) THEN {LoadFailed(<<"missing", left_file>>)}
    ELSE
    LET L == ParseIntrinsics(fs[left_file].lines) IN
    IF IsRaised(L) THEN {LoadFailed(<<"exception">>)}
    ELSE
    (IF NpArrayMayRaise(L.matrix) THEN {LoadFailed(<<"exception">>)} ELSE {})
    \cup
    (IF ~os_path_exists(right_file) THEN {LoadFailed(<<"missing", right_file>>)}
     ELSE
     LET R == ParseIntrinsics(fs[right_file].lines) IN
     IF IsRaised(R) THEN {LoadFailed(<<"exception">>)}
     ELSE
     (IF NpArrayMayRaise(R.matrix) THEN {LoadFailed(<<"exception">>)} ELSE {})
     \cup
     (IF ~os_path_exists(rot_file) THEN {LoadFailed(<<"missing", rot_file>>)}
      ELSE
      LET E == IF layout = "positional"
               THEN ParseExtrinsicsPositional(fs[rot_file].lines)
               ELSE ParseExtrinsicsMarker(fs[rot_file].lines)
      IN
      IF IsRaised(E) THEN {LoadFailed(<<"exception">>)}
      ELSE
      (IF NpArrayMayRaise(E.rotation) THEN {LoadFailed(<<"exception">>)} ELSE {})
      \cup
      {[tag |-> "params",
        left_matrix |-> L.matrix, left_distortion |-> <<L.distortion>>,
        right_matrix |-> R.matrix, right_distortion |-> <<R.distortion>>,
        rotation |-> E.rotation, translation |-> E.translation,
        files |-> <<left_file, right_file, rot_file>>]}))

\* a file name below camera_parameters/: the stem and the device qualifier
Path(stem, device_name) == <<stem, device_name>>

\* camera_diagnosis.load_camera_parameters(): three fixed names
CamLoadCameraParameters ==
    LoadFrom(Path("camera0_intrinsics", ""), Path("camera1_intrinsics", ""),
             Path("rot_trans", ""), "positional")

\* always the unqualified name
Fallback_BaseOnly(stem, device_name) == Path(stem, "")

\* the qualified name if it exists, the unqualified name otherwise
Fallback(stem, device_name) ==
    IF os_path_exists(Path(stem, device_name))
    THEN Path(stem, device_name)
    ELSE Path(stem, "")

\* depth_analysis.load_camera_parameters(device_name)
load_camera_parameters(device_name) ==
    LoadFrom(Fallback("camera0_intrinsics", device_name),
             Fallback("camera1_intrinsics", device_name),
             Fallback("camera1_rot_trans", device_name), "marker")

----------------------------------------------------------------------------
(* depth_analysis.py: analyze_depth_factors, calculate_depth_from_disparity, *)
(* simulate_depth_calculation and compare_devices                            *)
(* The baseline is a square root and is carried as its square, an integer;   *)
(* a depth is carried as the pair of a rational coefficient and the square   *)
(* of the baseline it multiplies.                                            *)

\* |sqrt(a) - sqrt(b)| > c for squares a, b >= 0 and a limit c > 0
RootDiffExceeds(a, b, c) ==
    LET s == RSub(RAdd(a, b), RMul(c, c))
    IN  RGt(s, RInt(0)) /\ RGt(RMul(s, s), RMul(RInt(4), RMul(a, b)))

\* cv.RQDecomp3x3(rotation)[0]: the Euler angles, in degrees, of a 3x3 matrix
EulerAngles(rotation) == [tag |-> "euler", of |-> rotation]
\* the possible values of abs(angles[1]) > limit, limit > 0: the identity has
\* the angles (0, 0, 0); the angles of another matrix are not computed here
AngleYExceeds(angles) ==
    IF angles.of = << <<1, 0, 0>>, <<0, 1, 0>>, <<0, 0, 1>> >> THEN {FALSE} ELSE BOOLEAN

\* analyze_depth_factors(params): the dict of factors; Raised for the
\* IndexError of an element a matrix does not have (lines 141-158) and for
\* the cv2.error of RQDecomp3x3 on a matrix that is not 3x3 (line 169)
analyze_depth_factors(p) ==
    LET L == p.left_matrix
        R == p.right_matrix
    IN  IF ~(HasElem(L, 0, 0) /\ HasElem(L, 1, 1) /\ HasElem(R, 0, 0) /\ HasElem(R, 1, 1))
        THEN Raised
        ELSE IF ~(HasElem(L, 0, 2) /\ HasElem(L, 1, 2) /\ HasElem(R, 0, 2) /\ HasElem(R, 1, 2))
        THEN Raised
        ELSE IF ~Is3x3(p.rotation)
        THEN Raised
        ELSE [tag |-> "dict",
              items |->
                [focal_length_left |-> Rat(Elem(L, 0, 0) + Elem(L, 1, 1), 2),
                 focal_length_right |-> Rat(Elem(R, 0, 0) + Elem(R, 1, 1), 2),
                 baseline |-> RInt(NormSq(p.translation)),
                 rotation_angles |-> EulerAngles(p.rotation)]]

\* the smallest disparity of line 182, 1e-6
TinyDisparity == [n |-> 1, d |-> 1000000]

\* calculate_depth_from_disparity, line 182, by reference: heap holds the
\* value of each object, names the object each local name is bound to.
\* "passed" is the caller's object; np.where makes the new object "where"
\* and the local name disparity is bound to it.
DisparityBindings(disparity) ==
    [heap |-> [passed |-> disparity,
               where |-> IF disparity.n > 0 THEN disparity ELSE TinyDisparity],
     names |-> [disparity |-> "where"]]

\* calculate_depth_from_disparity(disparity, baseline, focal_length):
\* baseline * focal_length / disparity, as (focal_length / disparity) times
\* the root of the squared baseline
calculate_depth_from_disparity(disparity, baseline, focal_length) ==
    LET b == DisparityBindings(disparity)
        d == b.heap[b.names.disparity]
    IN  [coef |-> RDiv(focal_length, d), root_of |-> baseline]

\* the default of simulate_depth_calculation's parameter test_disparities
test_disparities_default == <<10, 20, 50, 100>>

\* simulate_depth_calculation(params, test_disparities), lines 192-199: the
\* depth printed for each disparity, and the list as the loop leaves it
simulate_depth_calculation(factors, test_disparities) ==
    LET baseline == factors.items.baseline
        focal_length == RDiv(RAdd(factors.items.focal_length_left,
                                  factors.items.focal_length_right), RInt(2))
    IN  [depths |-> [i \in DOMAIN test_disparities |->
                        calculate_depth_from_disparity(RInt(test_disparities[i]),
                                                       baseline, focal_length)],
         test_disparities |->
             [i \in DOMAIN test_disparities |->
                 DisparityBindings(RInt(test_disparities[i])).heap.passed.n]]

\* the limits of compare_devices: 0.1 mm and 1.0 pixel for the warning,
\* 5 mm and 10 pixels for the advice, and the disparity of the example
BaselineWarn == [n |-> 1, d |-> 10]
FocalWarn == 1
BaselineAdvice == 5
FocalAdvice == 10
test_disparity == 50

\* compare_devices, lines 225-252, once both factor dicts exist: the
\* differences, the warning with its two example depths, and the
\* first two pieces of advice
CompareFactors(factors1, factors2) ==
    LET f1 == factors1.items
        f2 == factors2.items
        focal_diff == RAbs(RSub(f1.focal_length_left, f2.focal_length_left))
        bd(c) == RootDiffExceeds(f1.baseline, f2.baseline, c)
        b == DisparityBindings(RInt(test_disparity))
    IN  [focal_diff |-> focal_diff,
         warned |-> bd(BaselineWarn) \/ RGt(focal_diff, RInt(FocalWarn)),
         depth1 |-> calculate_depth_from_disparity(RInt(test_disparity), f1.baseline,
                                                   f1.focal_length_left),
         depth2 |-> calculate_depth_from_disparity(RInt(test_disparity), f2.baseline,
                                                   f2.focal_length_left),
         test_disparity |-> b.heap.passed.n,
         advise_baseline |-> bd(RInt(BaselineAdvice)),
         advise_focal |-> RGt(focal_diff, RInt(FocalAdvice))]

\* the locals of depth_analysis before main has run
DevIdle == [factors |-> None, depths |-> <<>>,
            test_disparities |-> test_disparities_default,
            checked |-> FALSE, compared |-> FALSE,
            params1 |-> None, params2 |-> None,
            factors1 |-> None, factors2 |-> None,
            report |-> None, advise_rotation |-> FALSE]

----------------------------------------------------------------------------
(* camera_diagnosis.py: analyze_roi_consistency *)

\* the candidate image sizes of the sweep
test_sizes == << <<1280, 720>>, <<1920, 1080>>, <<640, 480>> >>

\* the ROIs cv.stereoRectify may return: (x, y, w, h)
ROIs == {<<x, y, w, h>> : x \in 0..MaxCoord, y \in 0..MaxCoord,
                          w \in 0..MaxSize, h \in 0..MaxSize}

NoRoi == <<0, 0, 0, 0>>
CamIdle == [idx |-> 0, roi1 |-> NoRoi, roi2 |-> NoRoi,
            outcome |-> "none", unified |-> <<>>, suggested |-> <<>>]

\* RoiReport with the far corner of the overlap taken from the left ROI alone
RoiReport_LeftCorner(roi1, roi2) ==
    IF roi1[3] # roi2[3] \/ roi1[4] # roi2[4]
    THEN LET overlap_x1 == Max(roi1[1], roi2[1])
             overlap_y1 == Max(roi1[2], roi2[2])
             overlap_x2 == roi1[1] + roi1[3]
             overlap_y2 == roi1[2] + roi1[4]
         IN  IF overlap_x2 > overlap_x1 /\ overlap_y2 > overlap_y1
             THEN [outcome |-> "overlap",
                   unified |-> <<overlap_x1, overlap_y1,
                                 overlap_x2 - overlap_x1, overlap_y2 - overlap_y1>>,
                   suggested |-> <<>>]
             ELSE [outcome |-> "suggest",
                   unified |-> <<>>,
                   suggested |-> <<Min(roi1[3], roi2[3]), Min(roi1[4], roi2[4])>>]
    ELSE [outcome |-> "consistent", unified |-> <<>>, suggested |-> <<>>]

\* RoiReport with touching rectangles taken as overlapping (>= for >)
RoiReport_Touching(roi1, roi2) ==
    IF roi1[3] # roi2[3] \/ roi1[4] # roi2[4]
    THEN LET overlap_x1 == Max(roi1[1], roi2[1])
             overlap_y1 == Max(roi1[2], roi2[2])
             overlap_x2 == Min(roi1[1] + roi1[3], roi2[1] + roi2[3])
             overlap_y2 == Min(roi1[2] + roi1[4], roi2[2] + roi2[4])
         IN  IF overlap_x2 >= overlap_x1 /\ overlap_y2 >= overlap_y1
             THEN [outcome |-> "overlap",
                   unified |-> <<overlap_x1, overlap_y1,
                                 overlap_x2 - overlap_x1, overlap_y2 - overlap_y1>>,
                   suggested |-> <<>>]
             ELSE [outcome |-> "suggest",
                   unified |-> <<>>,
                   suggested |-> <<Min(roi1[3], roi2[3]), Min(roi1[4], roi2[4])>>]
    ELSE [outcome |-> "consistent", unified |-> <<>>, suggested |-> <<>>]

\* the body of the loop after stereoRectify returned roi1 and roi2: what is
\* printed for this resolution
RoiReport(roi1, roi2) ==
    IF roi1[3] # roi2[3] \/ roi1[4] # roi2[4]
    THEN LET left_x1 == roi1[1]
             left_y1 == roi1[2]
             left_x2 == left_x1 + roi1[3]
             left_y2 == left_y1 + roi1[4]
             right_x1 == roi2[1]
             right_y1 == roi2[2]
             right_x2 == right_x1 + roi2[3]
             right_y2 == right_y1 + roi2[4]
             overlap_x1 == Max(left_x1, right_x1)
             overlap_y1 == Max(left_y1, right_y1)
             overlap_x2 == Min(left_x2, right_x2)
             overlap_y2 == Min(left_y2, right_y2)
         IN  IF overlap_x2 > overlap_x1 /\ overlap_y2 > overlap_y1
             THEN [outcome |-> "overlap",
                   unified |-> <<overlap_x1, overlap_y1,
                                 overlap_x2 - overlap_x1, overlap_y2 - overlap_y1>>,
                   suggested |-> <<>>]
             ELSE [outcome |-> "suggest",
                   unified |-> <<>>,
                   suggested |-> <<Min(roi1[3], roi2[3]), Min(roi1[4], roi2[4])>>]
    ELSE [outcome |-> "consistent", unified |-> <<>>, suggested |-> <<>>]

\* analyze_roi_consistency: load the parameters; None ends the function and
\* the script goes on with check_camera_alignment
RoiLoad ==
    /\ pc = "roi_load"
    /\ \E r \in CamLoadCameraParameters :
          /\ params' = r
          /\ pc' = IF IsNone(r) THEN "align_load" ELSE "roi_sweep"
    /\ UNCHANGED <<fs, cam, align, inp, diag, dev>>

\* cv.stereoRectify asserts the shapes of its matrix arguments
RectifyAccepts(p) ==
    Is3x3(p.left_matrix) /\ Is3x3(p.right_matrix) /\ Is3x3(p.rotation)

\* the body of the loop for test_sizes[cam.idx + 1]: stereoRectify either
\* returns two ROIs, which are compared and reported, or raises, which
\* nothing catches
RoiStep ==
    /\ pc = "roi_sweep"
    /\ cam.idx < Len(test_sizes)
    /\ \/ /\ RectifyAccepts(params)
          /\ \E roi1 \in ROIs, roi2 \in ROIs :
               LET rep == RoiReport(roi1, roi2)
               IN  /\ cam' = [idx |-> cam.idx, roi1 |-> roi1, roi2 |-> roi2,
                              outcome |-> rep.outcome, unified |-> rep.unified,
                              suggested |-> rep.suggested]
                   /\ pc' = "roi_reported"
       \/ /\ pc' = "crashed"
          /\ cam' = cam
    /\ UNCHANGED <<fs, params, align, inp, diag, dev>>

\* the loop header: on to the next size; the ROIs of the last one are dead
RoiNext ==
    /\ pc = "roi_reported"
    /\ pc' = "roi_sweep"
    /\ cam' = [CamIdle EXCEPT !.idx = cam.idx + 1]
    /\ UNCHANGED <<fs, params, align, inp, diag, dev>>

\* the loop is over: analyze_roi_consistency returns
RoiFinish ==
    /\ pc = "roi_sweep"
    /\ cam.idx = Len(test_sizes)
    /\ pc' = "align_load"
    /\ UNCHANGED <<fs, params, cam, align, inp, diag, dev>>

----------------------------------------------------------------------------
(* camera_diagnosis.py: check_camera_alignment *)

AlignIdle == [tag |-> "None"]

\* AlignmentReport with inclusive thresholds (>= and <= for > and <)
AlignmentReport_Inclusive(p) ==
    LET dcx == Abs(Elem(p.left_matrix, 0, 2) - Elem(p.right_matrix, 0, 2))
        dcy == Abs(Elem(p.left_matrix, 1, 2) - Elem(p.right_matrix, 1, 2))
        dfx == Abs(Elem(p.left_matrix, 0, 0) - Elem(p.right_matrix, 0, 0))
        dfy == Abs(Elem(p.left_matrix, 1, 1) - Elem(p.right_matrix, 1, 1))
        baseline_sq == NormSq(p.translation)
    IN  [tag |-> "report", dcx |-> dcx, dcy |-> dcy, dfx |-> dfx, dfy |-> dfy,
         baseline_sq |-> baseline_sq,
         principal_flag |-> (dcx >= 50 \/ dcy >= 50),
         focal_flag |-> (dfx >= 20 \/ dfy >= 20),
         baseline_flag |-> (baseline_sq <= 10 * 10 \/ baseline_sq >= 200 * 200)]

\* the body of check_camera_alignment after a successful load: the report,
\* or Raised when an index is out of range or RQDecomp3x3 rejects R
AlignmentReport(p) ==
    IF ~(/\ HasElem(p.left_matrix, 0, 2) /\ HasElem(p.left_matrix, 1, 2)
         /\ HasElem(p.right_matrix, 0, 2) /\ HasElem(p.right_matrix, 1, 2))
    THEN Raised
    ELSE IF ~Is3x3(p.rotation) THEN Raised
    ELSE
    LET cx_left == Elem(p.left_matrix, 0, 2)
        cy_left == Elem(p.left_matrix, 1, 2)
        cx_right == Elem(p.right_matrix, 0, 2)
        cy_right == Elem(p.right_matrix, 1, 2)
        fx_left == Elem(p.left_matrix, 0, 0)
        fy_left == Elem(p.left_matrix, 1, 1)
        fx_right == Elem(p.right_matrix, 0, 0)
        fy_right == Elem(p.right_matrix, 1, 1)
        baseline_sq == NormSq(p.translation)
    IN  [tag |-> "report",
         dcx |-> Abs(cx_left - cx_right), dcy |-> Abs(cy_left - cy_right),
         dfx |-> Abs(fx_left - fx_right), dfy |-> Abs(fy_left - fy_right),
         baseline_sq |-> baseline_sq,
         principal_flag |-> (Abs(cx_left - cx_right) > 50 \/ Abs(cy_left - cy_right) > 50),
         focal_flag |-> (Abs(fx_left - fx_right) > 20 \/ Abs(fy_left - fy_right) > 20),
         baseline_flag |-> (baseline_sq < 10 * 10 \/ baseline_sq > 200 * 200)]

AlignLoad ==
    /\ pc = "align_load"
    /\ \E r \in CamLoadCameraParameters :
          /\ params' = r
          /\ pc' = IF IsNone(r) THEN "done" ELSE "align_check"
    /\ UNCHANGED <<fs, cam, align, inp, diag, dev>>

AlignCheck ==
    /\ pc = "align_check"
    /\ LET rep == AlignmentReport(params)
       IN  IF IsRaised(rep)
           THEN pc' = "crashed" /\ align' = align
           ELSE pc' = "done" /\ align' = rep
    /\ UNCHANGED <<fs, params, cam, inp, diag, dev>>

----------------------------------------------------------------------------
(* depth_calibration_diagnosis.py: depth maps and statistics                *)
(* A depth map is a float grid of h rows and w columns, d its samples in    *)
(* row-major order, each an exact rational.                                 *)

DepthMap(h, w, d) == [tag |-> "map", h |-> h, w |-> w, d |-> d]
Shape(m) == <<m.h, m.w>>
Size(m) == m.h * m.w

\* a Python dict: items maps each key present to its value
Dict(items) == [tag |-> "dict", items |-> items]
Has(dict, key) == key \in DOMAIN dict.items
\* a.update(b): the keys of b overwrite those of a
Update(a, b) == Dict(b.items @@ a.items)
EmptyDict == Dict(<<>>)
\* "if x:" for x a dict or None
Truthy(x) == x.tag = "dict" /\ DOMAIN x.items # {}

\* the sub-sequence of s at the positions where mask holds: s[mask]
RECURSIVE Masked(_, _)
Masked(s, mask) ==
    IF s = <<>> THEN <<>>
    ELSE IF Head(mask) THEN <<Head(s)>> \o Masked(Tail(s), Tail(mask))
    ELSE Masked(Tail(s), Tail(mask))

\* np.sum(mask)
CountTrue(mask) == Cardinality({i \in DOMAIN mask : mask[i]})

\* depth_map > 0
ValidMask(m) == [i \in DOMAIN m.d |-> RGt(m.d[i], RInt(0))]

Mean(s) == RDiv(RSum(s), RInt(Len(s)))
\* np.std(s) squared: the population variance
Variance(s) ==
    LET mu == Mean(s)
    IN  Mean([i \in DOMAIN s |-> RMul(RSub(s[i], mu), RSub(s[i], mu))])

RECURSIVE SeqMin(_)
SeqMin(s) ==
    IF Len(s) = 1 THEN s[1]
    ELSE LET r == SeqMin(Tail(s)) IN IF RLt(r, s[1]) THEN r ELSE s[1]
RECURSIVE SeqMax(_)
SeqMax(s) ==
    IF Len(s) = 1 THEN s[1]
    ELSE LET r == SeqMax(Tail(s)) IN IF RLt(s[1], r) THEN r ELSE s[1]

\* floor of a rational
Floor(a) == a.n \div a.d

\* number of bins of the depth histogram
HistBins == 50

\* np.histogram(valid_depths, bins=50), np.argmax and the centre of the
\* fullest bin.  A range of zero width is widened by 0.5 on both sides;
\* the last bin is closed on the right; argmax takes the first maximum.
PeakDepth(valid_depths) ==
    LET mn == SeqMin(valid_depths)
        mx == SeqMax(valid_depths)
        lo == IF mn = mx THEN RSub(mn, Rat(1, 2)) ELSE mn
        hi == IF mn = mx THEN RAdd(mx, Rat(1, 2)) ELSE mx
        width == RDiv(RSub(hi, lo), RInt(HistBins))
        BinOf(v) == IF v = hi THEN HistBins - 1
                    ELSE Floor(RDiv(RSub(v, lo), width))
        hist(b) == Cardinality({i \in DOMAIN valid_depths : BinOf(valid_depths[i]) = b})
        used == {BinOf(valid_depths[i]) : i \in DOMAIN valid_depths}
        peak_idx == CHOOSE b \in used :
                       \A c \in used : hist(c) < hist(b) \/ (hist(c) = hist(b) /\ b <= c)
    IN  RAdd(lo, RMul(Rat(2 * peak_idx + 1, 2), width))

\* analyze_depth_quality with zero-filled statistics for a map without a
\* valid sample
analyze_depth_quality_ZeroFilled(depth_map) ==
    LET valid_mask == ValidMask(depth_map)
        valid_pixels == CountTrue(valid_mask)
        valid_ratio == RMul(Rat(valid_pixels, Size(depth_map)), RInt(100))
        valid_depths == IF valid_pixels = 0 THEN <<RInt(0)>>
                        ELSE Masked(depth_map.d, valid_mask)
    IN  Dict([valid_ratio |-> valid_ratio,
              min_depth |-> SeqMin(valid_depths),
              max_depth |-> SeqMax(valid_depths),
              mean_depth |-> Mean(valid_depths),
              std_depth |-> Variance(valid_depths),
              peak_depth |-> PeakDepth(valid_depths)])

\* analyze_depth_quality(depth_map): None when no sample is valid, the dict
\* of statistics otherwise.  The gradient statistics of lines 77-89 are
\* printed and not returned, and only computed for a map of more than one
\* row and more than one column.
analyze_depth_quality(depth_map) ==
    LET valid_mask == ValidMask(depth_map)
        valid_pixels == CountTrue(valid_mask)
        total_pixels == Size(depth_map)
        valid_ratio == RMul(Rat(valid_pixels, total_pixels), RInt(100))
        valid_depths == Masked(depth_map.d, valid_mask)
    IN  IF valid_pixels = 0
        THEN [tag |-> "None", valid_ratio |-> valid_ratio, warning |-> "no_valid_depth"]
        ELSE Dict([valid_ratio |-> valid_ratio,
                   min_depth |-> SeqMin(valid_depths),
                   max_depth |-> SeqMax(valid_depths),
                   mean_depth |-> Mean(valid_depths),
                   std_depth |-> Variance(valid_depths),
                   peak_depth |-> PeakDepth(valid_depths)])

\* cv2.resize along one axis (INTER_LINEAR): for destination index x
\* (0-based) of dn samples made from sn samples, the left source index and
\* the weight of its right neighbour
ResizeTap(x, sn, dn) ==
    LET fx == Rat((2 * x + 1) * sn - dn, 2 * dn)
        sx == Floor(fx)
    IN  IF sx < 0 THEN [i |-> 0, f |-> RInt(0)]
        ELSE IF sx >= sn - 1 THEN [i |-> sn - 1, f |-> RInt(0)]
        ELSE [i |-> sx, f |-> RSub(fx, RInt(sx))]

\* sample (r, c), 0-based, of map m
At(m, r, c) == m.d[r * m.w + c + 1]

\* cv2.resize(m, (w, h)): bilinear interpolation of a float map
Resize(m, h, w) ==
    LET Val(r, c) ==
            LET ty == ResizeTap(r, m.h, h)
                tx == ResizeTap(c, m.w, w)
                r2 == IF ty.i + 1 < m.h THEN ty.i + 1 ELSE ty.i
                c2 == IF tx.i + 1 < m.w THEN tx.i + 1 ELSE tx.i
                one == RInt(1)
                top == RAdd(RMul(RSub(one, tx.f), At(m, ty.i, tx.i)),
                            RMul(tx.f, At(m, ty.i, c2)))
                bot == RAdd(RMul(RSub(one, tx.f), At(m, r2, tx.i)),
                            RMul(tx.f, At(m, r2, c2)))
            IN  RAdd(RMul(RSub(one, ty.f), top), RMul(ty.f, bot))
    IN  DepthMap(h, w, [k \in 1..(h * w) |-> Val((k - 1) \div w, (k - 1) % w)])

\* the samples with |diff| above this many mm count as large differences
LargeDiff == 50

\* lines 130-162: the statistics of the ratios and differences
CompareStats(depth_ratios, depth_diffs, abs_diffs) ==
    Dict([mean_ratio |-> Mean(depth_ratios),
          std_ratio |-> Variance(depth_ratios),
          mean_diff |-> Mean(depth_diffs),
          std_diff |-> Variance(depth_diffs),
          max_diff |-> SeqMax(abs_diffs),
          large_diff_ratio |->
              RMul(Rat(Cardinality({i \in DOMAIN abs_diffs :
                                      RGt(abs_diffs[i], RInt(LargeDiff))}),
                       Len(abs_diffs)),
                   RInt(100))])

AbsSeq(s) == [i \in DOMAIN s |-> RAbs(s[i])]

\* lines 126-141: ratios stereo / mono and differences stereo - mono of the
\* samples under the mask
CompareValid(mono_valid_depths, stereo_valid_depths) ==
    LET depth_diffs == [i \in DOMAIN mono_valid_depths |->
                          RSub(stereo_valid_depths[i], mono_valid_depths[i])]
    IN  CompareStats([i \in DOMAIN mono_valid_depths |->
                         RDiv(stereo_valid_depths[i], mono_valid_depths[i])],
                     depth_diffs, AbsSeq(depth_diffs))

\* lines 119-128: nothing to compare when the mask is empty
CompareMasked(mono_depth, stereo_depth, both_valid) ==
    IF CountTrue(both_valid) = 0
    THEN [tag |-> "None", warning |-> "no_common_valid"]
    ELSE CompareValid(Masked(mono_depth.d, both_valid),
                      Masked(stereo_depth.d, both_valid))

\* the mask of the first map alone
BothValid_MonoOnly(mono_depth, stereo_depth) ==
    [i \in DOMAIN mono_depth.d |-> RGt(mono_depth.d[i], RInt(0))]

\* lines 115-117: mono_valid & stereo_valid for maps of one shape
BothValid(mono_depth, stereo_depth) ==
    [i \in DOMAIN mono_depth.d |->
        RGt(mono_depth.d[i], RInt(0)) /\ RGt(stereo_depth.d[i], RInt(0))]

CompareSameShape(mono_depth, stereo_depth) ==
    CompareMasked(mono_depth, stereo_depth, BothValid(mono_depth, stereo_depth))

\* compare_depth_maps(mono_depth, stereo_depth): the second map is resized
\* to the shape of the first when the shapes differ; None when no position
\* is valid in both maps, the dict of ratio and difference statistics
\* otherwise
compare_depth_maps(mono_depth, stereo_depth) ==
    CompareSameShape(mono_depth,
                     IF Shape(mono_depth) # Shape(stereo_depth)
                     THEN Resize(stereo_depth, mono_depth.h, mono_depth.w)
                     ELSE stereo_depth)

\* numpy broadcasting of two 2-D shapes
Broadcastable(m1, m2) ==
    /\ m1.h = m2.h \/ m1.h = 1 \/ m2.h = 1
    /\ m1.w = m2.w \/ m1.w = 1 \/ m2.w = 1
\* sample (r, c) of m stretched to a broadcast shape
BAt(m, r, c) == At(m, IF m.h = 1 THEN 0 ELSE r, IF m.w = 1 THEN 0 ELSE c)

\* np.polyfit(x, y, 1): the least-squares line; when the x are all equal
\* (rank 1, a RankWarning) the minimum-norm solution of the column-scaled
\* system, scale = mean(y) / (2 x0), bias = mean(y) / 2
Polyfit1(x, y) ==
    LET n == RInt(Len(x))
        Sx == RSum(x)
        Sy == RSum(y)
        Sxx == RSum([i \in DOMAIN x |-> RMul(x[i], x[i])])
        Sxy == RSum([i \in DOMAIN x |-> RMul(x[i], y[i])])
        D == RSub(RMul(n, Sxx), RMul(Sx, Sx))
    IN  IF D # RInt(0)
        THEN LET a == RDiv(RSub(RMul(n, Sxy), RMul(Sx, Sy)), D)
             IN  <<a, RDiv(RSub(Sy, RMul(a, Sx)), n)>>
        ELSE <<RDiv(Mean(y), RMul(RInt(2), x[1])), RDiv(Mean(y), RInt(2))>>

\* lines 186-208: residuals of the fitted line and their statistics
FitReport(scale_factor, bias, residuals) ==
    Dict([scale_factor |-> scale_factor,
          bias |-> bias,
          rms_error |-> Mean([i \in DOMAIN residuals |-> RMul(residuals[i], residuals[i])]),
          max_error |-> SeqMax(AbsSeq(residuals))])

FitResiduals(mono_valid_depths, stereo_valid_depths, coeffs) ==
    FitReport(coeffs[1], coeffs[2],
              [i \in DOMAIN mono_valid_depths |->
                  RSub(stereo_valid_depths[i],
                       RAdd(RMul(coeffs[1], mono_valid_depths[i]), coeffs[2]))])

\* lines 181-184
FitValid(mono_valid_depths, stereo_valid_depths) ==
    FitResiduals(mono_valid_depths, stereo_valid_depths,
                 Polyfit1(mono_valid_depths, stereo_valid_depths))

\* lines 170-172: mono_valid & stereo_valid, broadcast to h x w
BroadcastBothValid(mono_depth, stereo_depth, h, w) ==
    [k \in 1..(h * w) |->
        /\ RGt(BAt(mono_depth, (k - 1) \div w, (k - 1) % w), RInt(0))
        /\ RGt(BAt(stereo_depth, (k - 1) \div w, (k - 1) % w), RInt(0))]

\* lines 174-179: no valid pair gives None; a mask that has not the shape
\* of both maps raises IndexError
FitMasked(mono_depth, stereo_depth, both_valid, h, w) ==
    IF CountTrue(both_valid) = 0
    THEN [tag |-> "None", error |-> "no_valid_pixels"]
    ELSE IF Shape(mono_depth) # <<h, w>> \/ Shape(stereo_depth) # <<h, w>>
    THEN Raised
    ELSE FitValid(Masked(mono_depth.d, both_valid), Masked(stereo_depth.d, both_valid))

FitBroadcast(mono_depth, stereo_depth, h, w) ==
    FitMasked(mono_depth, stereo_depth,
              BroadcastBothValid(mono_depth, stereo_depth, h, w), h, w)

\* analyze_calibration_quality(mono_depth, stereo_depth): None when no
\* position is valid in both maps, Raised when the shapes do not combine
\* (ValueError) or the mask does not fit a map (IndexError), the fit
\* otherwise
analyze_calibration_quality(mono_depth, stereo_depth) ==
    IF ~Broadcastable(mono_depth, stereo_depth) THEN Raised
    ELSE FitBroadcast(mono_depth, stereo_depth,
                      Max(mono_depth.h, stereo_depth.h), Max(mono_depth.w, stereo_depth.w))

\* the thresholds of suggest_calibration_parameters; RatioStdLimit is the
\* limit 0.2 of std_ratio in hundredths
RatioStdLimit == 20
LargeDiffLimit == 20
RmsLimit == 20
RansacFloor == 5
OutlierThreshold == 2
DepthLayers == 5

Sq(a) == RMul(a, a)

NoAdvice == [ransac |-> "silent", suggested_threshold |-> RInt(0),
             outlier |-> "silent", outlier_threshold |-> 0,
             layered |-> "silent", layers |-> 0]

\* suggest_calibration_parameters with the limit of std_ratio at 0.02
suggest_calibration_parameters_LowLimit(analysis_results) ==
    LET r == analysis_results.items
        ransac ==
            IF Has(analysis_results, "std_ratio")
            THEN IF RGt(r.std_ratio, Sq(Rat(RatioStdLimit, 1000)))
                 THEN <<"suggest", RMax(Sq(RInt(RansacFloor)), RMul(r.std_ratio, Sq(RInt(100))))>>
                 ELSE <<"no_action", RInt(0)>>
            ELSE <<"silent", RInt(0)>>
        outlier ==
            IF Has(analysis_results, "large_diff_ratio")
            THEN IF RGt(r.large_diff_ratio, RInt(LargeDiffLimit))
                 THEN <<"suggest", OutlierThreshold>>
                 ELSE <<"no_action", 0>>
            ELSE <<"silent", 0>>
        layered ==
            IF Has(analysis_results, "rms_error")
            THEN IF RGt(r.rms_error, Sq(RInt(RmsLimit)))
                 THEN <<"suggest", DepthLayers>>
                 ELSE <<"no_action", 0>>
            ELSE <<"silent", 0>>
    IN  [ransac |-> ransac[1], suggested_threshold |-> ransac[2],
         outlier |-> outlier[1], outlier_threshold |-> outlier[2],
         layered |-> layered[1], layers |-> layered[2]]

\* suggest_calibration_parameters with the thresholds included
suggest_calibration_parameters_Inclusive(analysis_results) ==
    LET r == analysis_results.items
        ransac ==
            IF Has(analysis_results, "std_ratio")
            THEN IF ~RLt(r.std_ratio, Sq(Rat(RatioStdLimit, 100)))
                 THEN <<"suggest", RMax(Sq(RInt(RansacFloor)), RMul(r.std_ratio, Sq(RInt(100))))>>
                 ELSE <<"no_action", RInt(0)>>
            ELSE <<"silent", RInt(0)>>
        outlier ==
            IF Has(analysis_results, "large_diff_ratio")
            THEN IF ~RLt(r.large_diff_ratio, RInt(LargeDiffLimit))
                 THEN <<"suggest", OutlierThreshold>>
                 ELSE <<"no_action", 0>>
            ELSE <<"silent", 0>>
        layered ==
            IF Has(analysis_results, "rms_error")
            THEN IF ~RLt(r.rms_error, Sq(RInt(RmsLimit)))
                 THEN <<"suggest", DepthLayers>>
                 ELSE <<"no_action", 0>>
            ELSE <<"silent", 0>>
    IN  [ransac |-> ransac[1], suggested_threshold |-> ransac[2],
         outlier |-> outlier[1], outlier_threshold |-> outlier[2],
         layered |-> layered[1], layers |-> layered[2]]

\* suggest_calibration_parameters(analysis_results): per rule, "suggest"
\* with its value, "no_action" for the else branch, "silent" when the key is
\* not in the dict.  std_ratio and rms_error hold squares, and so does
\* suggested_threshold = max(5.0, std_ratio * 100).
suggest_calibration_parameters(analysis_results) ==
    LET r == analysis_results.items
        ransac ==
            IF Has(analysis_results, "std_ratio")
            THEN IF RGt(r.std_ratio, Sq(Rat(RatioStdLimit, 100)))
                 THEN <<"suggest", RMax(Sq(RInt(RansacFloor)), RMul(r.std_ratio, Sq(RInt(100))))>>
                 ELSE <<"no_action", RInt(0)>>
            ELSE <<"silent", RInt(0)>>
        outlier ==
            IF Has(analysis_results, "large_diff_ratio")
            THEN IF RGt(r.large_diff_ratio, RInt(LargeDiffLimit))
                 THEN <<"suggest", OutlierThreshold>>
                 ELSE <<"no_action", 0>>
            ELSE <<"silent", 0>>
        layered ==
            IF Has(analysis_results, "rms_error")
            THEN IF RGt(r.rms_error, Sq(RInt(RmsLimit)))
                 THEN <<"suggest", DepthLayers>>
                 ELSE <<"no_action", 0>>
            ELSE <<"silent", 0>>
    IN  [ransac |-> ransac[1], suggested_threshold |-> ransac[2],
         outlier |-> outlier[1], outlier_threshold |-> outlier[2],
         layered |-> layered[1], layers |-> layered[2]]

----------------------------------------------------------------------------
(* depth_calibration_diagnosis.py: load_depth_map and main                  *)

Unreadable == [tag |-> "Unreadable"]

\* load_depth_map(file_path): None for a file that does not exist or that
\* neither cv2.imread nor np.load can read, the map otherwise
load_depth_map(file) == IF file.tag = "map" THEN file ELSE None

NoInput == [mono_arg |-> FALSE, stereo_arg |-> FALSE,
            mono_file |-> Missing, stereo_file |-> Missing]

DiagIdle == [mono_depth |-> None, stereo_depth |-> None,
             mono_analysis |-> None, stereo_analysis |-> None,
             comparison_analysis |-> None, calibration_analysis |-> None,
             all_analysis |-> None, advice |-> NoAdvice,
             visualized |-> FALSE, completed |-> FALSE]

\* lines 293-298: both paths are required
DiagArgs ==
    /\ pc = "d_args"
    /\ pc' = IF ~inp.mono_arg \/ ~inp.stereo_arg THEN "done" ELSE "d_load"
    /\ UNCHANGED <<fs, params, cam, align, inp, diag, dev>>

\* DiagLoad going on to the closing lines when a map was not loaded
DiagLoad_FallThrough ==
    /\ pc = "d_load"
    /\ LET mono_depth == load_depth_map(inp.mono_file)
           stereo_depth == load_depth_map(inp.stereo_file)
       IN  /\ diag' = [diag EXCEPT !.mono_depth = mono_depth,
                                   !.stereo_depth = stereo_depth]
           /\ pc' = IF IsNone(mono_depth) \/ IsNone(stereo_depth)
                    THEN "d_finish" ELSE "d_quality_mono"
    /\ UNCHANGED <<fs, params, cam, align, inp, dev>>

\* lines 300-308: load both maps; either one None ends the run
DiagLoad ==
    /\ pc = "d_load"
    /\ LET mono_depth == load_depth_map(inp.mono_file)
           stereo_depth == load_depth_map(inp.stereo_file)
       IN  /\ diag' = [diag EXCEPT !.mono_depth = mono_depth,
                                   !.stereo_depth = stereo_depth]
           /\ pc' = IF IsNone(mono_depth) \/ IsNone(stereo_depth)
                    THEN "done" ELSE "d_quality_mono"
    /\ UNCHANGED <<fs, params, cam, align, inp, dev>>

\* line 311
DiagQualityMono ==
    /\ pc = "d_quality_mono"
    /\ diag' = [diag EXCEPT !.mono_analysis = analyze_depth_quality(diag.mono_depth)]
    /\ pc' = "d_quality_stereo"
    /\ UNCHANGED <<fs, params, cam, align, inp, dev>>

\* line 312
DiagQualityStereo ==
    /\ pc = "d_quality_stereo"
    /\ diag' = [diag EXCEPT !.stereo_analysis = analyze_depth_quality(diag.stereo_depth)]
    /\ pc' = "d_compare"
    /\ UNCHANGED <<fs, params, cam, align, inp, dev>>

\* compare_depth_maps by reference, with the in-place form of line 112:
\* the resampled samples are stored into the caller's array
CompareBindings_InPlace(mono_depth, stereo_depth) ==
    IF Shape(mono_depth) # Shape(stereo_depth)
    THEN [heap |-> [mono |-> mono_depth,
                    stereo |-> Resize(stereo_depth, mono_depth.h, mono_depth.w)],
          names |-> [mono_depth |-> "mono", stereo_depth |-> "stereo"]]
    ELSE [heap |-> [mono |-> mono_depth, stereo |-> stereo_depth],
          names |-> [mono_depth |-> "mono", stereo_depth |-> "stereo"]]

\* compare_depth_maps, lines 109-112, by reference: heap holds the value of
\* each array object, names the object each local name is bound to.  "mono"
\* and "stereo" are the caller's arrays; cv2.resize makes the new array
\* "resized" and line 112 binds the local name stereo_depth to it.  No later
\* line of the function stores into an array.
CompareBindings(mono_depth, stereo_depth) ==
    IF Shape(mono_depth) # Shape(stereo_depth)
    THEN [heap |-> [mono |-> mono_depth, stereo |-> stereo_depth,
                    resized |-> Resize(stereo_depth, mono_depth.h, mono_depth.w)],
          names |-> [mono_depth |-> "mono", stereo_depth |-> "resized"]]
    ELSE [heap |-> [mono |-> mono_depth, stereo |-> stereo_depth],
          names |-> [mono_depth |-> "mono", stereo_depth |-> "stereo"]]

\* line 315: the result, and the caller's two arrays as the call leaves them
DiagCompare ==
    /\ pc = "d_compare"
    /\ LET b == CompareBindings(diag.mono_depth, diag.stereo_depth)
       IN  diag' = [diag EXCEPT !.comparison_analysis =
                                    compare_depth_maps(diag.mono_depth, diag.stereo_depth),
                                !.mono_depth = b.heap.mono,
                                !.stereo_depth = b.heap.stereo]
    /\ pc' = "d_calibrate"
    /\ UNCHANGED <<fs, params, cam, align, inp, dev>>

\* line 318: an exception of the fit is caught nowhere
DiagCalibrate ==
    /\ pc = "d_calibrate"
    /\ LET res == analyze_calibration_quality(diag.mono_depth, diag.stereo_depth)
       IN  IF IsRaised(res)
           THEN pc' = "crashed" /\ diag' = diag
           ELSE /\ pc' = "d_suggest"
                /\ diag' = [diag EXCEPT !.calibration_analysis = res]
    /\ UNCHANGED <<fs, params, cam, align, inp, dev>>

\* lines 320-329: the four results merged in order, later keys overwriting
MergeAnalysis(mono_analysis, stereo_analysis, comparison_analysis, calibration_analysis) ==
    LET a1 == IF Truthy(mono_analysis) THEN Update(EmptyDict, mono_analysis) ELSE EmptyDict
        a2 == IF Truthy(stereo_analysis) THEN Update(a1, stereo_analysis) ELSE a1
        a3 == IF Truthy(comparison_analysis) THEN Update(a2, comparison_analysis) ELSE a2
    IN  IF Truthy(calibration_analysis) THEN Update(a3, calibration_analysis) ELSE a3

\* lines 320-332: merge and suggest
DiagSuggest ==
    /\ pc = "d_suggest"
    /\ LET all_analysis == MergeAnalysis(diag.mono_analysis, diag.stereo_analysis,
                                         diag.comparison_analysis, diag.calibration_analysis)
       IN  diag' = [diag EXCEPT !.all_analysis = all_analysis,
                               !.advice = suggest_calibration_parameters(all_analysis)]
    /\ pc' = "d_finish"
    /\ UNCHANGED <<fs, params, cam, align, inp, dev>>

\* lines 334-343: the optional plots (args.visualize, read here for the
\* first time) and the closing lines
DiagFinish ==
    /\ pc = "d_finish"
    /\ \E visualize \in BOOLEAN :
          diag' = [diag EXCEPT !.visualized = visualize, !.completed = TRUE]
    /\ pc' = "done"
    /\ UNCHANGED <<fs, params, cam, align, inp, dev>>

\* the depth maps the files can hold
Shapes == {<<1, 1>>, <<1, 2>>, <<2, 1>>, <<1, 3>>}
DepthValues == {RInt(60 * k) : k \in 0..MaxLevel}
\* maps of two rows and two columns, the smallest for which line 77 admits
\* the gradient statistics: both rows alike
SquareMaps == {DepthMap(2, 2, <<a, b, a, b>>) : a \in DepthValues, b \in DepthValues}
Maps == UNION {{DepthMap(sh[1], sh[2], d) : d \in [1..(sh[1] * sh[2]) -> DepthValues]}
                 : sh \in Shapes}
        \cup SquareMaps

\* the script depth_calibration_diagnosis.py
InitDiag ==
    /\ pc = "d_args"
    /\ \/ \E ma \in BOOLEAN, sa \in BOOLEAN :
            /\ ~(ma /\ sa)
            /\ inp = [mono_arg |-> ma, stereo_arg |-> sa,
                      mono_file |-> Missing, stereo_file |-> Missing]
       \/ \E mf \in Maps \cup {Missing, Unreadable}, sf \in Maps \cup {Missing, Unreadable} :
            inp = [mono_arg |-> TRUE, stereo_arg |-> TRUE,
                   mono_file |-> mf, stereo_file |-> sf]
    /\ diag = DiagIdle
    /\ fs = <<>>
    /\ params = None
    /\ cam = CamIdle
    /\ align = AlignIdle
    /\ dev = DevIdle

NextDiag ==
    \/ DiagArgs \/ DiagLoad \/ DiagQualityMono \/ DiagQualityStereo
    \/ DiagCompare \/ DiagCalibrate \/ DiagSuggest \/ DiagFinish

SpecDiag == InitDiag /\ [][NextDiag]_vars

\* the interpreter executes the next statement of main for as long as the
\* script has neither returned nor raised
DiagPositions == {"d_args", "d_load", "d_quality_mono", "d_quality_stereo", "d_compare",
                  "d_calibrate", "d_suggest", "d_finish", "done", "crashed"}
DiagAdvance ==
    /\ pc \notin {"done", "crashed"}
    /\ pc' \in DiagPositions \ {pc}
SpecDiagFair == SpecDiag /\ WF_pc(DiagAdvance)

----------------------------------------------------------------------------
(* Inputs of camera_diagnosis.py: the files below camera_parameters/ *)

KLeft == << <<1000, 0, 640>>, <<0, 1000, 360>>, <<0, 0, 1>> >>
KRight(dfx, dfy, dcx, dcy) ==
    << <<1000 + dfx, 0, 640 + dcx>>, <<0, 1000 + dfy, 360 + dcy>>, <<0, 0, 1>> >>
DistLeft == <<1, 2, 3, 4, 5>>
DistRight == <<6, 7, 8, 9, 10>>
RIdentity == << <<1, 0, 0>>, <<0, 1, 0>>, <<0, 0, 1>> >>

\* an intrinsics file whose K section holds a single row
OneRowIntrinsicsFile ==
    File(<< <<Word("intrinsic:")>>, NumRow(<<1000, 0, 640>>),
            <<Word("distortion:")>>, NumRow(DistLeft) >>)
\* an intrinsics file with a token that is no number
BadTokenIntrinsicsFile ==
    File(<< <<Word("intrinsic:")>>, NumRow(<<1000, 0, 640>>), <<Num(0), Word("abc"), Num(0)>>,
            NumRow(<<0, 0, 1>>), <<Word("distortion:")>>, NumRow(DistRight) >>)
\* an intrinsics file with a blank line closing the K section
BlankRowIntrinsicsFile ==
    File(<< <<Word("intrinsic:")>>, NumRow(<<1000, 0, 640>>), NumRow(<<0, 1000, 360>>),
            NumRow(<<0, 0, 1>>), <<>>, <<Word("distortion:")>>, NumRow(DistRight) >>)
\* a positional extrinsics file that stops after the second scalar of T
ShortExtrinsicsFile ==
    File(<< NumRow(RIdentity[1]), NumRow(RIdentity[2]), NumRow(RIdentity[3]),
            <<Num(120)>>, <<Num(0)>> >>)

CamLeftName == Path("camera0_intrinsics", "")
CamRightName == Path("camera1_intrinsics", "")
CamRotName == Path("rot_trans", "")

CamLeftContents == {Missing, IntrinsicsFile(KLeft, DistLeft), OneRowIntrinsicsFile}
CamRightContents ==
    {Missing, IntrinsicsFile(KRight(50, 0, 0, 0), DistRight),
     BadTokenIntrinsicsFile, BlankRowIntrinsicsFile}
CamRotContents ==
    {Missing, PositionalExtrinsicsFile(RIdentity, <<120, 0, 0>>),
     MarkerExtrinsicsFile(RIdentity, <<120, 0, 0>>), ShortExtrinsicsFile}

\* the script camera_diagnosis.py: analyze_roi_consistency(), then
\* check_camera_alignment()
InitCam ==
    /\ pc = "roi_load"
    /\ \E l \in CamLeftContents, r \in CamRightContents, t \in CamRotContents :
          fs = (CamLeftName :> l) @@ (CamRightName :> r) @@ (CamRotName :> t)
    /\ params = None
    /\ cam = CamIdle
    /\ align = AlignIdle
    /\ dev = DevIdle
    /\ inp = NoInput
    /\ diag = DiagIdle

NextCam == RoiLoad \/ RoiStep \/ RoiNext \/ RoiFinish \/ AlignLoad \/ AlignCheck

SpecCam == InitCam /\ [][NextCam]_vars

\* the deltas between the two cameras drawn around a threshold t
Around(t) == {0, -(t + Margin)} \cup ((t - Margin)..(t + Margin))

\* the translation vectors drawn: baselines around 10 and 200, and 120
Translations ==
    {<<b, 0, 0>> : b \in {0, 120, -120} \cup ((10 - Margin)..(10 + Margin))
                          \cup ((200 - Margin)..(200 + Margin))}
    \cup {<<6, 8, 0>>, <<0, 120, 160>>, <<0, 121, 160>>}

\* a call of check_camera_alignment() on well-formed files
InitAlign ==
    /\ pc = "align_load"
    /\ \E dfx \in Around(20) \cup {50}, dfy \in Around(20),
          dcx \in Around(50), dcy \in Around(50), T \in Translations :
          fs = (CamLeftName :> IntrinsicsFile(KLeft, DistLeft))
               @@ (CamRightName :> IntrinsicsFile(KRight(dfx, dfy, dcx, dcy), DistRight))
               @@ (CamRotName :> PositionalExtrinsicsFile(RIdentity, T))
    /\ params = None
    /\ cam = CamIdle
    /\ align = AlignIdle
    /\ dev = DevIdle
    /\ inp = NoInput
    /\ diag = DiagIdle

NextAlign == AlignLoad \/ AlignCheck

SpecAlign == InitAlign /\ [][NextAlign]_vars

----------------------------------------------------------------------------
(* suggest_calibration_parameters called on its own *)

\* a dict holding key when present, nothing otherwise
Optional(key, present, value) == IF present THEN key :> value ELSE <<>>

\* std_ratio values (as squares of hundredths) around the limit 0.2 and
\* around 0.05, where std_ratio * 100 meets the floor of the threshold
StdRatios == {Sq(Rat(k, 100)) : k \in (Around(RatioStdLimit) \cup Around(RansacFloor)) \cap Nat}
\* large_diff_ratio values, in percent, around the limit 20
LargeDiffRatios == {RInt(k) : k \in Around(LargeDiffLimit) \cap Nat}
\* rms_error values (as squares) around the limit 20
RmsErrors == {Sq(RInt(k)) : k \in Around(RmsLimit) \cap Nat}

\* line 332: the call
SuggestCall ==
    /\ pc = "s_call"
    /\ diag' = [diag EXCEPT !.advice = suggest_calibration_parameters(diag.all_analysis)]
    /\ pc' = "s_returned"
    /\ UNCHANGED <<fs, params, cam, align, inp, dev>>

InitSuggest ==
    /\ pc = "s_call"
    /\ \E hs \in BOOLEAN, hl \in BOOLEAN, hr \in BOOLEAN, hm \in BOOLEAN :
       \E std_ratio \in IF hs THEN StdRatios ELSE {RInt(0)},
          large_diff_ratio \in IF hl THEN LargeDiffRatios ELSE {RInt(0)},
          rms_error \in IF hr THEN RmsErrors ELSE {RInt(0)} :
          diag = [DiagIdle EXCEPT !.all_analysis =
                     Dict(Optional("std_ratio", hs, std_ratio)
                          @@ Optional("large_diff_ratio", hl, large_diff_ratio)
                          @@ Optional("rms_error", hr, rms_error)
                          @@ Optional("mean_depth", hm, RInt(60)))]
    /\ inp = NoInput
    /\ fs = <<>>
    /\ params = None
    /\ cam = CamIdle
    /\ align = AlignIdle
    /\ dev = DevIdle

NextSuggest == SuggestCall

SpecSuggest == InitSuggest /\ [][NextSuggest]_vars

----------------------------------------------------------------------------
(* depth_analysis.py: load_camera_parameters(device_name) called on its own *)

DeviceNames == {"", "_device2"}
Stems == <<"camera0_intrinsics", "camera1_intrinsics", "camera1_rot_trans">>

\* what a file below camera_parameters/ can hold; the files of the two
\* devices differ in every section
DAContents(stem, device_name) ==
    LET q == IF device_name = "" THEN 0 ELSE 1
    IN  IF stem = "camera0_intrinsics"
        THEN {Missing, IntrinsicsFile(KRight(q, q, q, q), DistLeft)}
        ELSE IF stem = "camera1_intrinsics"
        THEN {Missing, IntrinsicsFile(KRight(50 + q, q, q, q), DistRight)}
        ELSE {Missing, MarkerExtrinsicsFile(RIdentity, <<120 + q, 0, 0>>)}
             \cup (IF q = 0 THEN {PositionalExtrinsicsFile(RIdentity, <<120, 0, 0>>)}
                   ELSE {})

DAPaths == {Path(Stems[i], dn) : i \in 1..3, dn \in DeviceNames}

\* lines 12-134: one call
DALoad ==
    /\ pc = "da_load"
    /\ \E p \in load_camera_parameters(inp.device_name) : params' = p
    /\ pc' = "da_returned"
    /\ UNCHANGED <<fs, cam, align, inp, diag, dev>>

InitDA ==
    /\ pc = "da_load"
    /\ fs \in [DAPaths -> UNION {DAContents(f[1], f[2]) : f \in DAPaths}]
    /\ \A f \in DAPaths : fs[f] \in DAContents(f[1], f[2])
    /\ \E dn \in DeviceNames : inp = [device_name |-> dn]
    /\ params = None
    /\ cam = CamIdle
    /\ align = AlignIdle
    /\ dev = DevIdle
    /\ diag = DiagIdle

NextDA == DALoad

SpecDA == InitDA /\ [][NextDA]_vars

----------------------------------------------------------------------------
(* Both loaders called on files of any content *)

\* a K with fx < 0, a K with fx = 0, and a K that is not upper-triangular
KNegative == << <<-1000, 0, 640>>, <<0, 1000, 360>>, <<0, 0, 1>> >>
KZeroFocal == << <<0, 0, 640>>, <<0, 1000, 360>>, <<0, 0, 1>> >>
KLower == << <<1000, 0, 0>>, <<0, 1000, 0>>, <<640, 360, 1>> >>
ParseKs == {KLeft, KRight(50, 7, -3, 4), KNegative, KZeroFocal, KLower}
ParseDists == {DistLeft, <<1, 2, 3, 4>>, <<1, 2, 3>>}
\* a rotation whose entries are all different
RGeneric == << <<1, 2, 3>>, <<4, 5, 6>>, <<7, 8, 9>> >>
ParseRs == {RIdentity, RGeneric}
ParseTs == {<<120, 0, 0>>, <<-60, 5, 7>>}

\* a text file of the given lines, each a row of numbers, a marker, or blank
Marker(s) == <<Word(s)>>
MalformedIntrinsics ==
    {OneRowIntrinsicsFile, BadTokenIntrinsicsFile, BlankRowIntrinsicsFile,
     \* two rows of K
     File(<< Marker("intrinsic:"), NumRow(KLeft[1]), NumRow(KLeft[2]),
             Marker("distortion:"), NumRow(DistLeft) >>),
     \* four rows in the K section
     File(<< Marker("intrinsic:"), NumRow(KLeft[1]), NumRow(KLeft[2]), NumRow(KLeft[3]),
             NumRow(<<9, 9, 9>>), Marker("distortion:"), NumRow(DistLeft) >>),
     \* a blank line after the distortion row
     File(<< Marker("intrinsic:"), NumRow(KLeft[1]), NumRow(KLeft[2]), NumRow(KLeft[3]),
             Marker("distortion:"), NumRow(DistLeft), <<>> >>),
     \* two rows in the distortion section
     File(<< Marker("intrinsic:"), NumRow(KLeft[1]), NumRow(KLeft[2]), NumRow(KLeft[3]),
             Marker("distortion:"), NumRow(<<1, 2, 3>>), NumRow(<<4, 5>>) >>),
     \* a row before the first marker, and the distortion section first
     File(<< NumRow(<<8, 8, 8>>), Marker("distortion:"), NumRow(DistLeft),
             Marker("intrinsic:"), NumRow(KLeft[1]), NumRow(KLeft[2]), NumRow(KLeft[3]) >>),
     \* no marker at all
     File(<< NumRow(KLeft[1]), NumRow(KLeft[2]), NumRow(KLeft[3]), NumRow(DistLeft) >>)}

MalformedExtrinsics ==
    {ShortExtrinsicsFile,
     \* positional, two rows of R
     File(<< NumRow(RGeneric[1]), NumRow(RGeneric[2]),
             <<Num(120)>>, <<Num(0)>>, <<Num(0)>> >>),
     \* marker layout, two rows of R
     File(<< Marker("R:"), NumRow(RGeneric[1]), NumRow(RGeneric[2]),
             Marker("T:"), <<Num(120)>>, <<Num(0)>>, <<Num(0)>> >>),
     \* marker layout, two components of T
     File(<< Marker("R:"), NumRow(RGeneric[1]), NumRow(RGeneric[2]), NumRow(RGeneric[3]),
             Marker("T:"), <<Num(120)>>, <<Num(0)>> >>),
     \* marker layout with blank lines
     File(<< Marker("R:"), NumRow(RGeneric[1]), <<>>, NumRow(RGeneric[2]), NumRow(RGeneric[3]),
             <<>>, Marker("T:"), <<Num(120)>>, <<>>, <<Num(0)>>, <<Num(0)>>, <<>> >>),
     \* positional layout with a blank line between R and T
     File(<< NumRow(RGeneric[1]), NumRow(RGeneric[2]), NumRow(RGeneric[3]), <<>>,
             <<Num(120)>>, <<Num(0)>>, <<Num(0)>> >>)}

ParseLeftContents ==
    {IntrinsicsFile(K, d) : K \in ParseKs, d \in ParseDists} \cup MalformedIntrinsics
ParseRightContents ==
    {IntrinsicsFile(KRight(50, 0, 0, 0), DistRight), BlankRowIntrinsicsFile}
ParseRotContents ==
    {PositionalExtrinsicsFile(R, T) : R \in ParseRs, T \in ParseTs}
    \cup {MarkerExtrinsicsFile(R, T) : R \in ParseRs, T \in ParseTs}
    \cup MalformedExtrinsics

DARotName == Path("camera1_rot_trans", "")

\* camera_diagnosis.py lines 12-106: one call
ParseCamLoad ==
    /\ pc = "p_load"
    /\ inp.script = "camera_diagnosis"
    /\ \E p \in CamLoadCameraParameters : params' = p
    /\ pc' = "p_returned"
    /\ UNCHANGED <<fs, cam, align, inp, diag, dev>>

\* depth_analysis.py lines 12-134: one call with the default device_name
ParseDALoad ==
    /\ pc = "p_load"
    /\ inp.script = "depth_analysis"
    /\ \E p \in load_camera_parameters("") : params' = p
    /\ pc' = "p_returned"
    /\ UNCHANGED <<fs, cam, align, inp, diag, dev>>

InitParse ==
    /\ pc = "p_load"
    /\ \E l \in ParseLeftContents, r \in ParseRightContents, t \in ParseRotContents :
          fs = (CamLeftName :> l) @@ (CamRightName :> r)
               @@ (CamRotName :> t) @@ (DARotName :> t)
    /\ \E script \in {"camera_diagnosis", "depth_analysis"} : inp = [script |-> script]
    /\ params = None
    /\ cam = CamIdle
    /\ align = AlignIdle
    /\ dev = DevIdle
    /\ diag = DiagIdle

NextParse == ParseCamLoad \/ ParseDALoad

SpecParse == InitParse /\ [][NextParse]_vars

----------------------------------------------------------------------------
(* The script depth_analysis.py: main and compare_devices *)

\* lines 261-262: the parameters of the current device; a None skips the
\* analysis
DevLoad ==
    /\ pc = "m_load"
    /\ \E p \in load_camera_parameters("") :
          /\ params' = p
          /\ pc' = IF p.tag = "params" THEN "m_factors" ELSE "m_check"
    /\ UNCHANGED <<fs, cam, align, inp, diag, dev>>

\* line 263: an exception of analyze_depth_factors is caught nowhere
DevFactors ==
    /\ pc = "m_factors"
    /\ LET factors == analyze_depth_factors(params)
       IN  IF IsRaised(factors)
           THEN pc' = "crashed" /\ dev' = dev
           ELSE pc' = "m_simulate" /\ dev' = [dev EXCEPT !.factors = factors]
    /\ UNCHANGED <<fs, params, cam, align, inp, diag>>

\* line 264: the loop over the default list
DevSimulate ==
    /\ pc = "m_simulate"
    /\ LET sim == simulate_depth_calculation(dev.factors, dev.test_disparities)
       IN  dev' = [dev EXCEPT !.depths = sim.depths,
                              !.test_disparities = sim.test_disparities]
    /\ pc' = "m_check"
    /\ UNCHANGED <<fs, params, cam, align, inp, diag>>

\* lines 267-274: the comparison runs when the left intrinsics file of the
\* second device exists
DevCheck ==
    /\ pc = "m_check"
    /\ dev' = [dev EXCEPT !.checked = TRUE]
    /\ pc' = IF os_path_exists(Path("camera0_intrinsics", "_device2"))
             THEN "c_load" ELSE "done"
    /\ UNCHANGED <<fs, params, cam, align, inp, diag>>

\* lines 210-215: both devices loaded; a None ends the comparison
DevCompareLoad ==
    /\ pc = "c_load"
    /\ \E p1 \in load_camera_parameters(""), p2 \in load_camera_parameters("_device2") :
          /\ dev' = [dev EXCEPT !.params1 = p1, !.params2 = p2]
          /\ pc' = IF IsNone(p1) \/ IsNone(p2) THEN "done" ELSE "c_factors"
    /\ UNCHANGED <<fs, params, cam, align, inp, diag>>

\* lines 217-223
DevCompareFactors ==
    /\ pc = "c_factors"
    /\ LET factors1 == analyze_depth_factors(dev.params1)
           factors2 == analyze_depth_factors(dev.params2)
       IN  IF IsRaised(factors1) \/ IsRaised(factors2)
           THEN /\ pc' = "crashed"
                /\ dev' = [dev EXCEPT !.factors1 = IF IsRaised(factors1) THEN None
                                                   ELSE factors1]
           ELSE /\ pc' = "c_report"
                /\ dev' = [dev EXCEPT !.factors1 = factors1, !.factors2 = factors2]
    /\ UNCHANGED <<fs, params, cam, align, inp, diag>>

\* lines 225-254: differences, warning and advice
DevCompareReport ==
    /\ pc = "c_report"
    /\ \E y1 \in AngleYExceeds(dev.factors1.items.rotation_angles),
          y2 \in AngleYExceeds(dev.factors2.items.rotation_angles) :
          dev' = [dev EXCEPT !.report = CompareFactors(dev.factors1, dev.factors2),
                             !.advise_rotation = y1 \/ y2,
                             !.compared = TRUE]
    /\ pc' = "done"
    /\ UNCHANGED <<fs, params, cam, align, inp, diag>>

\* what a file can hold: intrinsics as for a single load, and for the first
\* device an intrinsics file whose K section holds one row; extrinsics with
\* baselines of 5 and 10 for the two devices
DevContents(stem, device_name) ==
    LET q == IF device_name = "" THEN 0 ELSE 1
    IN  IF stem = "camera1_rot_trans"
        THEN {Missing, MarkerExtrinsicsFile(RIdentity, <<3 + 3 * q, 4 + 4 * q, 0>>)}
             \cup (IF q = 0 THEN {PositionalExtrinsicsFile(RIdentity, <<3, 4, 0>>)}
                   ELSE {})
        ELSE DAContents(stem, device_name)
             \cup (IF stem = "camera0_intrinsics" /\ q = 0
                   THEN {OneRowIntrinsicsFile} ELSE {})

InitDev ==
    /\ pc = "m_load"
    /\ fs \in [DAPaths -> UNION {DevContents(f[1], f[2]) : f \in DAPaths}]
    /\ \A f \in DAPaths : fs[f] \in DevContents(f[1], f[2])
    /\ inp = [device_name |-> ""]
    /\ params = None
    /\ cam = CamIdle
    /\ align = AlignIdle
    /\ diag = DiagIdle
    /\ dev = DevIdle

NextDev ==
    \/ DevLoad \/ DevFactors \/ DevSimulate \/ DevCheck
    \/ DevCompareLoad \/ DevCompareFactors \/ DevCompareReport

SpecDev == InitDev /\ [][NextDev]_vars

----------------------------------------------------------------------------
(* The two scripts that call the depth analyses: a run is a run of           *)
(* depth_calibration_diagnosis.py or a run of depth_analysis.py              *)

InitTools == InitDiag \/ InitDev
NextTools == NextDiag \/ NextDev
SpecTools == InitTools /\ [][NextTools]_vars

----------------------------------------------------------------------------
(* Properties of camera_diagnosis.py *)

\* a resolution has been analysed and its report is in cam
RoiReported == pc = "roi_reported"

SizesDiffer(r1, r2) == r1[3] # r2[3] \/ r1[4] # r2[4]

\* the rectangle intersection of two ROIs, as (x, y, w, h)
Intersection(r1, r2) ==
    <<Max(r1[1], r2[1]), Max(r1[2], r2[2]),
      Min(r1[1] + r1[3], r2[1] + r2[3]) - Max(r1[1], r2[1]),
      Min(r1[2] + r1[4], r2[2] + r2[4]) - Max(r1[2], r2[2])>>

PositiveArea(r) == r[3] > 0 /\ r[4] > 0

\* C1 as stated: for any two ROIs whose intersection has positive area the
\* reported unified region is the intersection, with width and height > 0.
C1_AnyOverlapReported ==
    (RoiReported /\ PositiveArea(Intersection(cam.roi1, cam.roi2)))
        => /\ cam.outcome = "overlap"
           /\ cam.unified = Intersection(cam.roi1, cam.roi2)
           /\ PositiveArea(cam.unified)

\* C1 amended: for any two ROIs that differ in width or height and whose
\* intersection has positive area, the reported unified region is exactly
\* (max(x1,x2), max(y1,y2), min(x1+w1,x2+w2)-max(x1,x2),
\* min(y1+h1,y2+h2)-max(y1,y2)), with width and height > 0; a unified
\* region is reported in no other case.
C1_OverlapRegion ==
    RoiReported =>
        /\ (SizesDiffer(cam.roi1, cam.roi2)
              /\ PositiveArea(Intersection(cam.roi1, cam.roi2)))
             => /\ cam.outcome = "overlap"
                /\ cam.unified = Intersection(cam.roi1, cam.roi2)
                /\ PositiveArea(cam.unified)
        /\ cam.outcome = "overlap"
             => /\ SizesDiffer(cam.roi1, cam.roi2)
                /\ cam.unified = Intersection(cam.roi1, cam.roi2)

\* a unified region strictly smaller than both ROIs has been reported
C1_Witness ==
    /\ RoiReported
    /\ cam.outcome = "overlap"
    /\ cam.roi1 = <<0, 0, 2, 2>>
    /\ cam.roi2 = <<1, 1, 2, 1>>
    /\ cam.unified = <<1, 1, 1, 1>>

\* C2: when the two ROIs differ in width or height, the min-dimension
\* suggestion (min(w1,w2), min(h1,h2)) is reported iff the intersection has
\* no positive area; every analysed resolution gets exactly one of the
\* three reports, "consistent" exactly when the sizes agree.
C2_FallbackPolicy ==
    RoiReported =>
        /\ cam.outcome \in {"consistent", "overlap", "suggest"}
        /\ (cam.outcome = "consistent") <=> ~SizesDiffer(cam.roi1, cam.roi2)
        /\ SizesDiffer(cam.roi1, cam.roi2)
             => ((cam.outcome = "suggest")
                    <=> ~PositiveArea(Intersection(cam.roi1, cam.roi2)))
        /\ (cam.outcome = "suggest")
             <=> (cam.suggested = <<Min(cam.roi1[3], cam.roi2[3]),
                                    Min(cam.roi1[4], cam.roi2[4])>>)
        /\ (cam.outcome = "overlap") <=> (cam.unified # <<>>)

\* two ROIs of different size that only touch: the suggestion is reported
C2_Witness ==
    /\ RoiReported
    /\ cam.roi1 = <<0, 0, 1, 1>>
    /\ cam.roi2 = <<1, 0, 2, 2>>
    /\ cam.outcome = "suggest"
    /\ cam.suggested = <<1, 1>>

\* C3: the principal-point flag is raised iff max(dcx, dcy) > 50, the focal
\* flag iff max(dfx, dfy) > 20, the baseline flag iff the baseline is < 10
\* or > 200, each from its own quantities only; the values 50, 20, 10 and
\* 200 themselves raise nothing.
C3_AlignmentFlags ==
    (pc = "done" /\ align.tag = "report") =>
        LET dcx == Abs(params.left_matrix[1][3] - params.right_matrix[1][3])
            dcy == Abs(params.left_matrix[2][3] - params.right_matrix[2][3])
            dfx == Abs(params.left_matrix[1][1] - params.right_matrix[1][1])
            dfy == Abs(params.left_matrix[2][2] - params.right_matrix[2][2])
            bsq == NormSq(params.translation)
        IN  /\ align.principal_flag <=> (Max(dcx, dcy) > 50)
            /\ align.focal_flag <=> (Max(dfx, dfy) > 20)
            /\ align.baseline_flag <=> (bsq < 100 \/ bsq > 40000)
            /\ (dfx = 50) => align.focal_flag
            /\ (params.translation = <<120, 0, 0>>) => ~align.baseline_flag

\* dfx = 50 with baseline 120 and both principal deltas at exactly 50: the
\* focal flag alone is raised
C3_Witness ==
    /\ pc = "done"
    /\ align.tag = "report"
    /\ align.dfx = 50 /\ align.dfy = 20
    /\ align.dcx = 50 /\ align.dcy = 50
    /\ params.translation = <<120, 0, 0>>
    /\ align.focal_flag /\ ~align.principal_flag /\ ~align.baseline_flag

----------------------------------------------------------------------------
(* Properties of depth_calibration_diagnosis.py *)

Rules == {"ransac", "outlier", "layered"}

\* C4: after suggest_calibration_parameters has run on the merged result,
\* each of the three rules has printed its suggestion or its "no action"
\* note; none is silent, whether or not its field is in the result.
C4_NeverSilent ==
    (pc = "d_finish") =>
        /\ diag.advice.ransac \in {"suggest", "no_action"}
        /\ diag.advice.outlier \in {"suggest", "no_action"}
        /\ diag.advice.layered \in {"suggest", "no_action"}

\* the run in which C4 fails: no position valid in both maps, so neither
\* the comparison nor the fit contributes a field, and no rule prints
C4_SilentRun ==
    /\ pc = "d_finish"
    /\ IsNone(diag.comparison_analysis) /\ IsNone(diag.calibration_analysis)
    /\ diag.advice.ransac = "silent"
    /\ diag.advice.outlier = "silent"
    /\ diag.advice.layered = "silent"

\* the fixed thresholds of C5, std_ratio and rms_error as squares
Exceeds(results, key, limit) == Has(results, key) /\ RGt(results.items[key], limit)

\* C5: for a result that holds the field of a rule, the rule suggests iff
\* the field is strictly above its threshold (std_ratio > 0.2 with RANSAC
\* threshold max(5.0, std_ratio * 100); large_diff_ratio > 20 with outlier
\* threshold 2.0; rms_error > 20 with 5 layers) and prints its "no action"
\* note otherwise, whatever the other fields hold.
C5_StrictThresholds ==
    (pc = "s_returned") =>
        LET r == diag.all_analysis
            a == diag.advice
        IN  /\ Has(r, "std_ratio") =>
                 IF RGt(r.items.std_ratio, Rat(4, 100))
                 THEN /\ a.ransac = "suggest"
                      /\ a.suggested_threshold =
                            RMax(RInt(25), RMul(r.items.std_ratio, RInt(10000)))
                 ELSE a.ransac = "no_action"
            /\ Has(r, "large_diff_ratio") =>
                 IF RGt(r.items.large_diff_ratio, RInt(20))
                 THEN a.outlier = "suggest" /\ a.outlier_threshold = 2
                 ELSE a.outlier = "no_action"
            /\ Has(r, "rms_error") =>
                 IF RGt(r.items.rms_error, RInt(400))
                 THEN a.layered = "suggest" /\ a.layers = 5
                 ELSE a.layered = "no_action"

\* all three fields exactly at their thresholds: three "no action" notes
C5_Witness ==
    /\ pc = "s_returned"
    /\ Has(diag.all_analysis, "std_ratio")
    /\ Has(diag.all_analysis, "large_diff_ratio")
    /\ Has(diag.all_analysis, "rms_error")
    /\ diag.all_analysis.items.std_ratio = Rat(1, 25)
    /\ diag.all_analysis.items.large_diff_ratio = RInt(20)
    /\ diag.all_analysis.items.rms_error = RInt(400)
    /\ diag.advice.ransac = "no_action"
    /\ diag.advice.outlier = "no_action"
    /\ diag.advice.layered = "no_action"

\* the second map as compare_depth_maps sees it
Aligned(mono_depth, stereo_depth) ==
    IF Shape(mono_depth) = Shape(stereo_depth) THEN stereo_depth
    ELSE Resize(stereo_depth, mono_depth.h, mono_depth.w)

\* the pairs <<mono, stereo>> at the positions where both samples are > 0
JointPairs(m, s) ==
    SelectSeq([i \in DOMAIN m.d |-> <<m.d[i], s.d[i]>>],
              LAMBDA p : RGt(p[1], RInt(0)) /\ RGt(p[2], RInt(0)))

\* C6: the statistics of compare_depth_maps are those of the ratios
\* stereo / mono and the differences stereo - mono at exactly the positions
\* where both maps are > 0; without such a position the comparison returns
\* no statistics.
C6_JointlyValid ==
    (pc = "d_calibrate") =>
        LET pairs == JointPairs(diag.mono_depth, Aligned(diag.mono_depth, diag.stereo_depth))
            ratios == [i \in DOMAIN pairs |-> RDiv(pairs[i][2], pairs[i][1])]
            diffs == [i \in DOMAIN pairs |-> RSub(pairs[i][2], pairs[i][1])]
            c == diag.comparison_analysis
        IN  IF pairs = <<>>
            THEN IsNone(c)
            ELSE /\ c.tag = "dict"
                 /\ c.items.mean_ratio = Mean(ratios)
                 /\ c.items.std_ratio = Variance(ratios)
                 /\ c.items.mean_diff = Mean(diffs)
                 /\ c.items.std_diff = Variance(diffs)
                 /\ \E i \in DOMAIN diffs : c.items.max_diff = RAbs(diffs[i])
                 /\ \A i \in DOMAIN diffs : ~RGt(RAbs(diffs[i]), c.items.max_diff)
                 /\ c.items.large_diff_ratio =
                       Rat(100 * Cardinality({i \in DOMAIN diffs : RGt(RAbs(diffs[i]), RInt(50))}),
                           Len(diffs))

\* both maps hold valid samples, at different positions: no statistics
C6_Witness ==
    /\ pc = "d_calibrate"
    /\ diag.mono_depth = DepthMap(1, 2, <<RInt(60), RInt(0)>>)
    /\ diag.stereo_depth = DepthMap(1, 2, <<RInt(0), RInt(120)>>)
    /\ IsNone(diag.comparison_analysis)

\* the jointly valid pairs of two maps of one shape
SameShape == Shape(diag.mono_depth) = Shape(diag.stereo_depth)
Constant(s) == \A i, j \in DOMAIN s : s[i] = s[j]

\* C7: the fit is refused (no scale, bias or residuals are returned) when
\* fewer than 2 pairs are jointly valid or the jointly valid mono samples
\* are all equal, and a fit is returned otherwise.
C7_InsufficientData ==
    (pc = "d_suggest" /\ SameShape) =>
        LET pairs == JointPairs(diag.mono_depth, diag.stereo_depth)
            mono == [i \in DOMAIN pairs |-> pairs[i][1]]
        IN  IF Len(pairs) < 2 \/ Constant(mono)
            THEN IsNone(diag.calibration_analysis)
            ELSE diag.calibration_analysis.tag = "dict"

\* the run in which C7 fails: a single jointly valid pair, and a fit with
\* scale 1/2 and bias 30 is returned
C7_SinglePairFit ==
    /\ pc = "d_suggest"
    /\ diag.mono_depth = DepthMap(1, 1, <<RInt(60)>>)
    /\ diag.stereo_depth = DepthMap(1, 1, <<RInt(60)>>)
    /\ diag.calibration_analysis.tag = "dict"
    /\ diag.calibration_analysis.items.scale_factor = Rat(1, 2)
    /\ diag.calibration_analysis.items.bias = RInt(30)

NoValidSample(m) == \A i \in DOMAIN m.d : ~RGt(m.d[i], RInt(0))

\* what C8 asks of the report of a map without a valid sample
NoValidDepthReport(report) ==
    /\ IsNone(report)
    /\ report.valid_ratio = RInt(0)
    /\ report.warning = "no_valid_depth"
    /\ DOMAIN report \cap {"items", "min_depth", "max_depth", "mean_depth",
                           "std_depth", "peak_depth"} = {}

\* C8: for a depth map with no sample > 0, analyze_depth_quality reports
\* the validity ratio 0 and the no-valid-depth warning and returns no
\* derived statistic; the call returns (the run goes on to the next step).
C8_NoValidDepth ==
    /\ (pc \in {"d_quality_stereo", "d_compare"} /\ NoValidSample(diag.mono_depth))
          => NoValidDepthReport(diag.mono_analysis)
    /\ (pc = "d_compare" /\ NoValidSample(diag.stereo_depth))
          => NoValidDepthReport(diag.stereo_analysis)

\* a map of three zeros has been analysed
C8_Witness ==
    /\ pc = "d_quality_stereo"
    /\ diag.mono_depth = DepthMap(1, 3, <<RInt(0), RInt(0), RInt(0)>>)
    /\ NoValidDepthReport(diag.mono_analysis)

\* C9: for two identical depth maps with a valid sample the comparison
\* yields ratio mean 1, ratio std 0, difference mean 0 and large-difference
\* ratio 0, the fit yields scale 1, bias 0 and RMS residual 0, and no rule
\* suggests an action.
C9_IdenticalMaps ==
    (/\ pc = "d_finish"
     /\ diag.mono_depth = diag.stereo_depth
     /\ ~NoValidSample(diag.mono_depth)) =>
        /\ diag.comparison_analysis.tag = "dict"
        /\ diag.comparison_analysis.items.mean_ratio = RInt(1)
        /\ diag.comparison_analysis.items.std_ratio = RInt(0)
        /\ diag.comparison_analysis.items.mean_diff = RInt(0)
        /\ diag.comparison_analysis.items.large_diff_ratio = RInt(0)
        /\ diag.calibration_analysis.tag = "dict"
        /\ diag.calibration_analysis.items.scale_factor = RInt(1)
        /\ diag.calibration_analysis.items.bias = RInt(0)
        /\ diag.calibration_analysis.items.rms_error = RInt(0)
        /\ \A rule \in Rules : diag.advice[rule] # "suggest"

\* the run in which C9 fails: two identical maps of two equal samples are
\* fitted with scale 1/2 and bias 60
C9_ConstantMaps ==
    /\ pc = "d_finish"
    /\ diag.mono_depth = DepthMap(1, 2, <<RInt(120), RInt(120)>>)
    /\ diag.stereo_depth = diag.mono_depth
    /\ diag.comparison_analysis.items.mean_ratio = RInt(1)
    /\ diag.calibration_analysis.items.scale_factor = Rat(1, 2)
    /\ diag.calibration_analysis.items.bias = RInt(60)

----------------------------------------------------------------------------
(* Properties of depth_analysis.py *)

Exists(f) == fs[f] # Missing

\* the file C10 expects to be read for a stem
Expected(stem) ==
    IF Exists(Path(stem, inp.device_name)) THEN Path(stem, inp.device_name)
    ELSE Path(stem, "")

\* the numbers of lines from..to of a file
Rows(f, from, to) == [i \in 1..(to - from + 1) |-> Floats(fs[f].lines[from + i - 1])]

\* C10: load_camera_parameters(device_name) reads, for each of the three
\* files, the device-qualified file if it exists and the unqualified file
\* otherwise; if neither exists the load fails with the message naming the
\* first such file; parameters that are returned hold the contents of the
\* files read.
C10_FallbackLoad ==
    (pc = "da_returned") =>
        LET absent == {i \in 1..3 : ~Exists(Expected(Stems[i]))}
        IN  /\ absent # {} =>
                 params = LoadFailed(<<"missing",
                                       Path(Stems[CHOOSE i \in absent : \A j \in absent : i <= j], "")>>)
            /\ params.tag = "params" =>
                 /\ absent = {}
                 /\ params.files = [i \in 1..3 |-> Expected(Stems[i])]
                 /\ params.left_matrix = Rows(params.files[1], 2, 4)
                 /\ params.left_distortion = Rows(params.files[1], 6, 6)
                 /\ params.right_matrix = Rows(params.files[2], 2, 4)
                 /\ params.right_distortion = Rows(params.files[2], 6, 6)
                 /\ params.rotation = Rows(params.files[3], 2, 4)
                 /\ params.translation = [i \in 1..3 |-> fs[params.files[3]].lines[5 + i][1].v]
            /\ params.tag \in {"params", "None"}

\* device 2 is asked for; its right intrinsics file is absent and the
\* unqualified one is read in its place, next to the two qualified files
C10_Witness ==
    /\ pc = "da_returned"
    /\ inp.device_name = "_device2"
    /\ ~Exists(Path("camera1_intrinsics", "_device2"))
    /\ Exists(Path("camera0_intrinsics", ""))
    /\ params.tag = "params"
    /\ params.files = <<Path("camera0_intrinsics", "_device2"),
                        Path("camera1_intrinsics", ""),
                        Path("camera1_rot_trans", "_device2")>>
    /\ params.right_matrix = KRight(50, 0, 0, 0)
    /\ params.translation = <<121, 0, 0>>

----------------------------------------------------------------------------
(* Properties of the two loaders *)

IntrinsicsMarkers == {"intrinsic:", "distortion:"}
ExtrinsicsMarkers == {"R:", "T:"}

IsMarkerLine(line, markers) == \E m \in markers : HasWord(line, m)

\* the marker most recently seen before line i, "" if there is none
SectionAt(lines, i, markers) ==
    LET prev == {j \in 1..(i - 1) : IsMarkerLine(lines[j], markers)}
    IN  IF prev = {} THEN ""
        ELSE LET last == CHOOSE j \in prev : \A k \in prev : k <= j
             IN  CHOOSE m \in markers : HasWord(lines[last], m)

\* the non-marker lines below marker m, in file order
SectionLines(lines, m, markers) ==
    LET at == SelectSeq([i \in DOMAIN lines |-> i],
                        LAMBDA i : /\ ~IsMarkerLine(lines[i], markers)
                                   /\ SectionAt(lines, i, markers) = m)
    IN  [k \in DOMAIN at |-> lines[at[k]]]

NonBlankLines(lines) == SelectSeq(lines, LAMBDA line : line # <<>>)

\* fewer than three rows of K below "intrinsic:"
TooFewK(file) ==
    Len(NonBlankLines(SectionLines(file.lines, "intrinsic:", IntrinsicsMarkers))) < 3

\* fewer than three rows of R or components of T, in the layout of the file
TooFewRT(file) ==
    IF \E i \in DOMAIN file.lines : IsMarkerLine(file.lines[i], ExtrinsicsMarkers)
    THEN \/ Len(NonBlankLines(SectionLines(file.lines, "R:", ExtrinsicsMarkers))) < 3
         \/ Len(NonBlankLines(SectionLines(file.lines, "T:", ExtrinsicsMarkers))) < 3
    ELSE Len(NonBlankLines(file.lines)) < 6

Returned == pc = "p_returned"
Loaded == Returned /\ params.tag = "params"

\* C11: when a calibration file holds fewer than three rows of K, fewer
\* than three rows of R or fewer than three components of T, the load
\* fails and returns no parameters.
C11_TooFewLinesRejected ==
    (/\ Returned
     /\ \/ TooFewK(fs[CamLeftName]) \/ TooFewK(fs[CamRightName])
        \/ TooFewRT(fs[CamRotName]))
        => IsNone(params)

\* the load in which C11 fails: a K section of one row is returned as a
\* matrix of one row
C11_OneRowReturned ==
    /\ Loaded
    /\ fs[CamLeftName] = OneRowIntrinsicsFile
    /\ params.left_matrix = << <<1000, 0, 640>> >>

\* both intrinsics files are in the documented layout
WellFormedIntrinsics ==
    /\ \E K \in ParseKs, d \in ParseDists : fs[CamLeftName] = IntrinsicsFile(K, d)
    /\ fs[CamRightName] = IntrinsicsFile(KRight(50, 0, 0, 0), DistRight)

\* C12: an extrinsics file in the positional layout and one in the marker
\* layout are both accepted by the loader, and each yields the R and T
\* whose numbers it holds.
C12_BothLayouts ==
    (Returned /\ WellFormedIntrinsics) =>
        \A R \in ParseRs, T \in ParseTs :
            (fs[CamRotName] \in {PositionalExtrinsicsFile(R, T), MarkerExtrinsicsFile(R, T)})
                => /\ params.tag = "params"
                   /\ params.rotation = R
                   /\ params.translation = T

\* the load in which C12 fails: camera_diagnosis.py is given the marker
\* layout and ends in its except clause
C12_MarkerRejected ==
    /\ Returned
    /\ WellFormedIntrinsics
    /\ inp.script = "camera_diagnosis"
    /\ fs[CamRotName] = MarkerExtrinsicsFile(RGeneric, <<120, 0, 0>>)
    /\ params = LoadFailed(<<"exception">>)

\* the data-model invariant of K: 3x3, upper-triangular, fx > 0, fy > 0
ValidK(M) ==
    /\ Is3x3(M)
    /\ M[2][1] = 0 /\ M[3][1] = 0 /\ M[3][2] = 0
    /\ M[1][1] > 0 /\ M[2][2] > 0

\* C13: the parameters a successful load returns hold, for each camera, a
\* K that is 3x3 and upper-triangular with fx > 0 and fy > 0 and a
\* distortion vector of length >= 4; files violating this are rejected.
C13_ValidatedModel ==
    Loaded =>
        /\ ValidK(params.left_matrix)
        /\ ValidK(params.right_matrix)
        /\ Len(params.left_distortion[1]) >= 4
        /\ Len(params.right_distortion[1]) >= 4

\* the load in which C13 fails: a K with fx = -1000 and a distortion row
\* of three coefficients are returned as they were read
C13_NegativeFocalReturned ==
    /\ Loaded
    /\ fs[CamLeftName] = IntrinsicsFile(KNegative, <<1, 2, 3>>)
    /\ params.left_matrix = KNegative
    /\ params.left_distortion = << <<1, 2, 3>> >>

----------------------------------------------------------------------------
(* Properties of the ROI sweep *)

\* C14: a step of the sweep taken for a candidate resolution leads to the
\* report of that resolution or, when its rectification fails, on to the
\* next resolution; it never ends the sweep.
C14_SweepContinues ==
    [][(pc = "roi_sweep" /\ cam.idx < Len(test_sizes))
          => pc' \in {"roi_reported", "roi_sweep"}]_vars

\* the run in which C14 fails: the parameters loaded hold a K of one row,
\* cv.stereoRectify raises for the first resolution and the script ends
\* with no resolution analysed
C14_SweepAborted ==
    /\ pc = "crashed"
    /\ fs[CamLeftName] = OneRowIntrinsicsFile
    /\ params.tag = "params"
    /\ ~RectifyAccepts(params)
    /\ cam.idx = 0
    /\ align = AlignIdle

----------------------------------------------------------------------------
(* Properties of the main of depth_calibration_diagnosis.py *)

\* C15: once both depth maps are loaded, the run passes through quality
\* analysis, comparison, fit and recommendation and eventually prints its
\* completion lines, whatever the two maps hold.
C15_ReachesCompletion ==
    (pc = "d_quality_mono") ~> (pc = "done" /\ diag.completed)

\* the run in which C15 fails: the maps differ in shape, the comparison
\* resizes and succeeds, and the fit raises IndexError, which ends the
\* script before the recommendation
C15_FitRaised ==
    /\ pc = "crashed"
    /\ diag.mono_depth = DepthMap(1, 1, <<RInt(60)>>)
    /\ diag.stereo_depth = DepthMap(1, 2, <<RInt(60), RInt(120)>>)
    /\ diag.comparison_analysis.tag = "dict"
    /\ IsNone(diag.calibration_analysis)
    /\ IsNone(diag.all_analysis)
    /\ ~diag.completed

\* a required path is not on the command line, or a required map is not
\* there or cannot be read
BadInput ==
    \/ ~inp.mono_arg \/ ~inp.stereo_arg
    \/ inp.mono_file.tag # "map" \/ inp.stereo_file.tag # "map"

\* C16: when a required path is absent from the command line or a required
\* map cannot be loaded, the run never leaves the argument check and the
\* load: no quality analysis, comparison, fit, recommendation or
\* visualization is performed and the completion lines are not printed.
C16_UsageError ==
    BadInput =>
        /\ pc \in {"d_args", "d_load", "done"}
        /\ IsNone(diag.mono_analysis) /\ IsNone(diag.stereo_analysis)
        /\ IsNone(diag.comparison_analysis) /\ IsNone(diag.calibration_analysis)
        /\ IsNone(diag.all_analysis)
        /\ diag.advice = NoAdvice
        /\ ~diag.visualized /\ ~diag.completed

\* both paths were given, the first map was loaded and the second file
\* could not be read: the run has ended after the load
C16_Witness ==
    /\ pc = "done"
    /\ inp.mono_arg /\ inp.stereo_arg
    /\ inp.stereo_file = Unreadable
    /\ diag.mono_depth = DepthMap(1, 2, <<RInt(60), RInt(120)>>)
    /\ IsNone(diag.stereo_depth)
    /\ IsNone(diag.mono_analysis)
    /\ ~diag.completed

----------------------------------------------------------------------------
(* Round trip through the files *)

\* C17: for any K, distortion, R and T written in the documented layout
\* (each marker followed by its rows), load_camera_parameters of
\* depth_analysis.py returns exactly the values written, each row in the
\* matrix or vector it was written for.
C17_RoundTrip ==
    (Returned /\ inp.script = "depth_analysis") =>
        \A K \in ParseKs, d \in ParseDists, R \in ParseRs, T \in ParseTs :
            (/\ fs[CamLeftName] = IntrinsicsFile(K, d)
             /\ fs[CamRightName] = IntrinsicsFile(KRight(50, 0, 0, 0), DistRight)
             /\ fs[DARotName] = MarkerExtrinsicsFile(R, T))
                => /\ params.tag = "params"
                   /\ params.left_matrix = K
                   /\ params.left_distortion = <<d>>
                   /\ params.right_matrix = KRight(50, 0, 0, 0)
                   /\ params.right_distortion = <<DistRight>>
                   /\ params.rotation = R
                   /\ params.translation = T

\* files written from a K, a distortion vector, an R and a T whose entries
\* all differ have been read back
C17_Witness ==
    /\ Returned
    /\ inp.script = "depth_analysis"
    /\ fs[CamLeftName] = IntrinsicsFile(KRight(50, 7, -3, 4), <<1, 2, 3, 4>>)
    /\ fs[DARotName] = MarkerExtrinsicsFile(RGeneric, <<-60, 5, 7>>)
    /\ params.tag = "params"
    /\ params.left_matrix = << <<1050, 0, 637>>, <<0, 1007, 364>>, <<0, 0, 1>> >>
    /\ params.left_distortion = << <<1, 2, 3, 4>> >>
    /\ params.rotation = RGeneric
    /\ params.translation = <<-60, 5, 7>>

----------------------------------------------------------------------------
(* Properties of the resampling *)

\* C18: for two maps of different dimensions the fit, like the comparison,
\* is made on the jointly valid pairs of the first map and the second map
\* resampled to the dimensions of the first.
C18_FitOnResampled ==
    (pc \in {"d_suggest", "crashed"} /\ ~SameShape) =>
        LET pairs == JointPairs(diag.mono_depth, Aligned(diag.mono_depth, diag.stereo_depth))
        IN  /\ pc = "d_suggest"
            /\ IF pairs = <<>>
               THEN IsNone(diag.comparison_analysis) /\ IsNone(diag.calibration_analysis)
               ELSE /\ diag.comparison_analysis.tag = "dict"
                    /\ diag.calibration_analysis =
                          FitValid([i \in DOMAIN pairs |-> pairs[i][1]],
                                   [i \in DOMAIN pairs |-> pairs[i][2]])

\* the run in which C18 fails: a 1x2 and a 1x3 map are compared after the
\* resize, and the fit, given the maps as loaded, raises ValueError
C18_FitOnLoadedMaps ==
    /\ pc = "crashed"
    /\ diag.mono_depth = DepthMap(1, 2, <<RInt(60), RInt(120)>>)
    /\ diag.stereo_depth = DepthMap(1, 3, <<RInt(60), RInt(60), RInt(120)>>)
    /\ ~Broadcastable(diag.mono_depth, diag.stereo_depth)
    /\ diag.comparison_analysis.tag = "dict"
    /\ IsNone(diag.calibration_analysis)

\* the source indices along one axis that sample x of the resized axis is
\* computed from: the left tap, and its right neighbour when it has weight
TapSources(x, sn, dn) ==
    LET t == ResizeTap(x, sn, dn)
    IN  {t.i} \cup (IF t.f # RInt(0) THEN {Min(t.i + 1, sn - 1)} ELSE {})

\* C19: a sample of the resampled second map is valid (> 0) only if every
\* source sample it is computed from is valid.
C19_SentinelPreserved ==
    (pc = "d_calibrate" /\ ~SameShape) =>
        LET src == diag.stereo_depth
            h == diag.mono_depth.h
            w == diag.mono_depth.w
            resampled == Aligned(diag.mono_depth, src)
        IN  \A r \in 0..(h - 1), c \in 0..(w - 1) :
                RGt(At(resampled, r, c), RInt(0))
                    => \A sr \in TapSources(r, src.h, h), sc \in TapSources(c, src.w, w) :
                          RGt(At(src, sr, sc), RInt(0))

\* the run in which C19 fails: the samples 0 and 120 of the second map are
\* averaged to 60, which is counted as jointly valid with the 60 of the
\* first map
C19_InvalidAveraged ==
    /\ pc = "d_calibrate"
    /\ diag.mono_depth = DepthMap(1, 1, <<RInt(60)>>)
    /\ diag.stereo_depth = DepthMap(1, 2, <<RInt(0), RInt(120)>>)
    /\ Aligned(diag.mono_depth, diag.stereo_depth) = DepthMap(1, 1, <<RInt(60)>>)
    /\ diag.comparison_analysis.tag = "dict"
    /\ diag.comparison_analysis.items.mean_ratio = RInt(1)

----------------------------------------------------------------------------
(* Section assignment in the intrinsics parser *)

RECURSIVE Flatten(_)
Flatten(rows) == IF rows = <<>> THEN <<>> ELSE Head(rows) \o Flatten(Tail(rows))

\* the numbers of the lines below marker m of an intrinsics file, by line
SectionRows(file, m) ==
    LET ls == SectionLines(file.lines, m, IntrinsicsMarkers)
    IN  [k \in DOMAIN ls |-> Floats(ls[k])]

\* C20: in the parameters loaded, K is exactly the sequence of lines that
\* stand below an "intrinsic:" marker, in file order, and the distortion
\* vector is made of the line or lines that stand below a "distortion:"
\* marker; lines above the first marker are in neither.
C20_SectionAssignment ==
    Loaded =>
        /\ params.left_matrix = SectionRows(fs[CamLeftName], "intrinsic:")
        /\ params.left_distortion = <<Flatten(SectionRows(fs[CamLeftName], "distortion:"))>>
        /\ params.right_matrix = SectionRows(fs[CamRightName], "intrinsic:")
        /\ params.right_distortion = <<Flatten(SectionRows(fs[CamRightName], "distortion:"))>>

\* the load in which C20 fails: of the two lines below "distortion:" only
\* the last one is in the distortion vector
C20_LastRowOnly ==
    /\ Loaded
    /\ SectionRows(fs[CamLeftName], "distortion:") = << <<1, 2, 3>>, <<4, 5>> >>
    /\ params.left_matrix = KLeft
    /\ params.left_distortion = << <<4, 5>> >>

----------------------------------------------------------------------------
(* Properties of the aggregated record and of the analyses' arguments *)

\* the results of the two quality analyses that main holds
QualityResults == {diag.mono_analysis, diag.stereo_analysis}

\* C21: the aggregated record of main is write-once: once the merge has run,
\* every field of the mono quality result and every field of the stereo
\* quality result is in the record with the value its analysis gave it.
C21_WriteOnce ==
    diag.all_analysis.tag = "dict" =>
        \A a \in QualityResults :
            Truthy(a) =>
                \A key \in DOMAIN a.items :
                    /\ Has(diag.all_analysis, key)
                    /\ diag.all_analysis.items[key] = a.items[key]

\* the merge has run on two maps whose mean depths differ: the record holds
\* the mean depth of the stereo map and the one of the mono map is gone
C21_MonoOverwritten ==
    /\ pc = "d_finish"
    /\ Truthy(diag.mono_analysis)
    /\ Truthy(diag.stereo_analysis)
    /\ diag.mono_analysis.items.mean_depth # diag.stereo_analysis.items.mean_depth
    /\ diag.all_analysis.items.mean_depth = diag.stereo_analysis.items.mean_depth

\* a run of depth_calibration_diagnosis.py, a run of depth_analysis.py
DiagRun == "mono_file" \in DOMAIN inp
DevRun == "device_name" \in DOMAIN inp

\* C22: no analysis changes what it was passed.  In a run of
\* depth_calibration_diagnosis.py each map main holds is the map its file
\* held when it was loaded, through analyze_depth_quality, compare_depth_maps
\* (resize included) and analyze_calibration_quality; in a run of
\* depth_analysis.py the parameters, the factors and the disparities passed
\* to analyze_depth_factors, simulate_depth_calculation and
\* calculate_depth_from_disparity are as they were before the calls.
C22_InputsUnchanged ==
    /\ DiagRun =>
          /\ diag.mono_depth.tag = "map" => diag.mono_depth = inp.mono_file
          /\ diag.stereo_depth.tag = "map" => diag.stereo_depth = inp.stereo_file
    /\ DevRun =>
          /\ dev.test_disparities = test_disparities_default
          /\ params.tag = "params" => params \in load_camera_parameters("")
          /\ dev.factors.tag = "dict" => dev.factors = analyze_depth_factors(params)
          /\ dev.compared =>
                /\ dev.report.test_disparity = test_disparity
                /\ dev.params1 \in load_camera_parameters("")
                /\ dev.params2 \in load_camera_parameters("_device2")
                /\ dev.factors1 = analyze_depth_factors(dev.params1)
                /\ dev.factors2 = analyze_depth_factors(dev.params2)

\* compare_depth_maps has returned a result for maps of different shapes, so
\* its resize branch has run
C22_Witness ==
    /\ DiagRun
    /\ pc = "d_calibrate"
    /\ Shape(diag.mono_depth) # Shape(diag.stereo_depth)
    /\ Truthy(diag.comparison_analysis)
    /\ Shape(diag.stereo_depth) = Shape(inp.stereo_file)

----------------------------------------------------------------------------
(* Properties of analyze_depth_quality's report *)

\* line 77: the gradient statistics are computed for this map
GradientComputed(depth_map) == depth_map.h > 1 /\ depth_map.w > 1

\* C23: a report returned by analyze_depth_quality for a map with a valid
\* sample holds, besides the six depth statistics, the noise proxy
\* (mean_gradient) and the high-gradient ratio (high_gradient_ratio).
C23_NoiseReported ==
    \A a \in QualityResults :
        Truthy(a) =>
            /\ {"valid_ratio", "min_depth", "max_depth", "mean_depth", "std_depth",
                "peak_depth"} \subseteq DOMAIN a.items
            /\ {"mean_gradient", "high_gradient_ratio"} \subseteq DOMAIN a.items

\* the report of a map of two rows and two columns with a valid sample,
\* for which line 77 admits the gradient statistics: it has the six depth
\* statistics and nothing else
C23_GradientNotReturned ==
    /\ pc = "d_quality_stereo"
    /\ GradientComputed(diag.mono_depth)
    /\ Truthy(diag.mono_analysis)
    /\ DOMAIN diag.mono_analysis.items =
          {"valid_ratio", "min_depth", "max_depth", "mean_depth", "std_depth", "peak_depth"}

----------------------------------------------------------------------------
(* Properties of the suggested RANSAC threshold *)

\* C24: a suggested RANSAC threshold is strictly greater than 20 and equals
\* std_ratio * 100; the floor 5.0 is never the value suggested.  (Threshold
\* and std_ratio are held as squares.)
C24_ThresholdAboveFloor ==
    (pc = "s_returned" /\ diag.advice.ransac = "suggest") =>
        /\ RGt(diag.advice.suggested_threshold, Sq(RInt(RatioStdLimit)))
        /\ diag.advice.suggested_threshold =
              RMul(diag.all_analysis.items.std_ratio, Sq(RInt(100)))
        /\ diag.advice.suggested_threshold # Sq(RInt(RansacFloor))

\* a threshold was suggested
C24_Witness ==
    /\ pc = "s_returned"
    /\ diag.advice.ransac = "suggest"
    /\ Has(diag.all_analysis, "std_ratio")

----------------------------------------------------------------------------
(* Properties of compare_devices *)

\* the device qualifier of a file name
Qualifier(f) == f[2]

\* C25: whenever compare_devices compares two devices, the three files its
\* device-2 parameters were read from are the device-2 files.
C25_Device2Files ==
    (DevRun /\ dev.params2.tag = "params") =>
        \A i \in 1..3 : Qualifier(dev.params2.files[i]) = "_device2"

\* compare_devices has compared the two devices with the right intrinsics
\* of device 2 read from the file of device 1
C25_RightFromDevice1 ==
    /\ DevRun
    /\ dev.compared
    /\ ~os_path_exists(Path("camera1_intrinsics", "_device2"))
    /\ dev.params2.files[1] = Path("camera0_intrinsics", "_device2")
    /\ dev.params2.files[2] = Path("camera1_intrinsics", "")
    /\ dev.params2.right_matrix = dev.params1.right_matrix

====
